---- MODULE Spec2Model ----
(***************************************************************************)
(* Execution Authority of ruvvector-service: the accept / validate         *)
(* handlers over the append-only `executions` ledger, and the signing      *)
(* primitive they use.                                                     *)
(*                                                                         *)
(* Every HTTP request is a process that runs from one `await` to the next; *)
(* the steps of different requests interleave freely, the statements the   *)
(* database executes (SELECT, INSERT) are atomic.                          *)
(*                                                                         *)
(* Spec            accept, simulate and validate, with altered signatures  *)
(* SpecLedger      all routes of the ledger, get and list included         *)
(* SpecSimulations POST /v1/simulations with every kind of body            *)
(* SpecKeys        accept with an idempotency key, an empty one and none   *)
(* SpecClient      the VectorClient and its circuit breaker, with the      *)
(*                 handlers that call it                                   *)
(* SpecRecovery    the VectorClient while RuvVector recovers, with the     *)
(*                 clock running and every outbound call ending            *)
(* SpecTimeout     the VectorClient with the duration of every call        *)
(* SpecGuard       the immutability guard over SQL statements              *)
(* SpecStartup     verifyStorageHealth on every kind of backing store      *)
(* SpecAuthority   signExecution and verifyExecutionSignature on their own *)
(* SpecMalformed   verifyExecutionSignature on signatures of every shape   *)
(* SpecList        GET /v1/executions with every kind of limit and offset  *)
(* SpecCorrelation the x-correlation-id header of the execution routes     *)
(* SpecNormalize   normalizePayload on every kind of body                  *)
(***************************************************************************)
EXTENDS Integers, Sequences, FiniteSets, TLC

\* ------------------------------------------------------------------------
\* Bounds of the model
\* ------------------------------------------------------------------------
MaxReqs == 2            \* HTTP requests handled in one behaviour
MaxCalls == 2           \* VectorClient calls that may be in flight together
MaxClock == 4           \* the wall clock counts 0..MaxClock for the client
threshold == 2          \* circuitConfig.threshold: failures before opening
timeout == 2            \* circuitConfig.timeout: the cool-down, in clock ticks
requestTimeout == 1     \* VectorClient.timeout: the time allowed to an
                        \* outbound call, in clock ticks
MaxNow == 1             \* the wall clock counts 0..MaxNow
TicksPerSecond == 2     \* clock ticks in one second (Date#toString drops
                        \* everything below the second)

Reqs == 1..MaxReqs
Calls == 1..MaxCalls

Absent == "<absent>"    \* a string field that is not there (undefined)
NoText == <<Absent>>    \* a query parameter that is not there (undefined)
NoHeader == <<"undefined">>  \* a request header that is not there
Null == "<null>"        \* JSON / SQL null in a string column
NoId == <<"none", 0>>   \* no execution id (field absent)
NoTime == <<"none", 0>> \* no timestamp (field absent)
NoSig == <<>>           \* no signature (field absent, or the empty string)

\* ------------------------------------------------------------------------
\* Hex strings (a signature is a sequence of one-character strings)
\* ------------------------------------------------------------------------
HexLower == <<"0", "1", "2", "3", "4", "5", "6", "7",
              "8", "9", "a", "b", "c", "d", "e", "f">>
HexUpper == <<"0", "1", "2", "3", "4", "5", "6", "7",
              "8", "9", "A", "B", "C", "D", "E", "F">>

\* the hex digit of n, as digest('hex') writes it (lower case)
HexOf(n) == HexLower[n + 1]

IsHexChar(c) == \E i \in 1..16 : c = HexLower[i] \/ c = HexUpper[i]

\* the value of a hex digit; Buffer.from(s, 'hex') reads both cases
HexVal(c) == (CHOOSE i \in 1..16 : c = HexLower[i] \/ c = HexUpper[i]) - 1

ToUpper(c) == IF \E i \in 1..16 : c = HexLower[i]
              THEN HexUpper[CHOOSE i \in 1..16 : c = HexLower[i]]
              ELSE c

\* Buffer.from(s, 'hex'): decodes pairs of hex digits from the left and stops
\* at the first pair that is not two hex digits; a trailing single character
\* is dropped.
RECURSIVE HexDecode(_)
HexDecode(s) ==
    IF Len(s) < 2 THEN <<>>
    ELSE IF IsHexChar(s[1]) /\ IsHexChar(s[2])
         THEN <<16 * HexVal(s[1]) + HexVal(s[2])>> \o HexDecode(SubSeq(s, 3, Len(s)))
         ELSE <<>>

\* ------------------------------------------------------------------------
\* Signing primitive
\* ------------------------------------------------------------------------
hmacSecret == 0         \* config.execution.hmacSecret, as the index of a secret

\* new Date().toISOString(): millisecond precision, renders the instant itself
ToISOString(t) == <<"iso", t>>

\* String(date), what a template literal makes of a Date object:
\* "Mon Jan 01 2024 00:00:00 GMT+0000 (...)", whole seconds
DateToString(t) == <<"datestr", t \div TicksPerSecond>>

\* a digest that does not depend on the key
HmacHexUnkeyed(secret, id, ts) ==
    << HexOf(10),
       HexOf(id[2]),
       IF ts[1] = "iso" THEN "e" ELSE "d",
       IF ts[1] = "iso" THEN HexOf(ts[2]) ELSE HexOf(8 + ts[2]) >>

\* HMAC-SHA256 as a keyed injective function of (secret, payload), written as
\* lower-case hex: one digit for the secret, the uuid of the execution id,
\* and two for the timestamp string (its shape and its value), so that the
\* digests of one id over an ISO string and over a Date string differ in
\* more than one character.
HmacHex(secret, id, ts) ==
    << HexOf(10 + secret),
       HexOf(id[2]),
       IF ts[1] = "iso" THEN "e" ELSE "d",
       IF ts[1] = "iso" THEN HexOf(ts[2]) ELSE HexOf(8 + ts[2]) >>

\* payload = `${executionId}:${timestamp}`; the id has a fixed shape, so the
\* pair determines the concatenation.
signExecution(executionId, timestamp, secret) ==
    HmacHex(secret, executionId, timestamp)

\* how a call ends: with the value it returns, or with the error it throws
Returning(value) == [returned |-> value, thrown |-> "none"]
Throwing(error) == [returned |-> FALSE, thrown |-> error]

\* crypto.timingSafeEqual(a, b): throws a RangeError on buffers of different
\* byte length
timingSafeEqual(a, b) ==
    IF Len(a) # Len(b) THEN Throwing("RangeError") ELSE Returning(a = b)

\* a verification without the try block around the comparison
verifyExecutionSignatureUncaught(executionId, timestamp, signature, secret) ==
    LET expectedSignature == signExecution(executionId, timestamp, secret)
    IN  IF Len(expectedSignature) # Len(signature) THEN Returning(FALSE)
        ELSE timingSafeEqual(HexDecode(expectedSignature), HexDecode(signature))

\* a call of verifyExecutionSignature and how it ends: the catch turns what
\* timingSafeEqual throws into false
verifyExecutionSignatureCall(executionId, timestamp, signature, secret) ==
    LET expectedSignature == signExecution(executionId, timestamp, secret)
    IN  IF Len(expectedSignature) # Len(signature) THEN Returning(FALSE)
        ELSE LET expected == HexDecode(expectedSignature)
                 actual == HexDecode(signature)
                 compared == timingSafeEqual(expected, actual)
             IN  IF compared.thrown # "none" THEN Returning(FALSE)
                 ELSE compared

\* verifyExecutionSignature(executionId, timestamp, signature, secret): what
\* it returns
verifyExecutionSignature(executionId, timestamp, signature, secret) ==
    verifyExecutionSignatureCall(executionId, timestamp, signature,
                                 secret).returned

\* a mint that draws its uuid once and hands out the same id ever after
mintExecutionIdCached(uuid) == <<"exec-", 0>>

\* mintExecutionId(): `exec-${randomUUID()}`; a uuid is its draw number
mintExecutionId(uuid) == <<"exec-", uuid>>

\* ------------------------------------------------------------------------
\* State
\* ------------------------------------------------------------------------
VARIABLES
    ledger,     \* the rows of table `executions`
    req,        \* per request: the handler, its position and its locals
    resp,       \* per request: the response sent (status 0: none yet)
    now,        \* the wall clock, Date.now()
    uuids,      \* number of randomUUID() draws so far
    circuitState,       \* VectorClient: CLOSED, OPEN or HALF_OPEN
    failureCount,       \* VectorClient: failures recorded since the last reset
    lastFailureTime,    \* VectorClient: Date.now() of the last failure recorded
    call,       \* per client call: the operation, its position and its result
    streak,     \* history: failures recorded since the last success recorded,
                \* counted up to threshold
    recovered,  \* RuvVector: whether it has recovered, to succeed from now on
    guard,      \* immutability guard: the last statement checked
    startup,    \* verifyStorageHealth: the store, the checks and the outcome
    authority,  \* signExecution / verifyExecutionSignature: the last use
    payload     \* normalizePayload: the body it was given and what it returned

\* the fields of the VectorClient and the calls made on it
clientVars ==
    <<circuitState, failureCount, lastFailureTime, call, streak, recovered>>

\* the guard, the startup check, the signing primitive and the payload
\* normalisation on their own
libVars == <<guard, startup, authority, payload>>

vars == <<ledger, req, resp, now, uuids, clientVars, libVars>>

\* request bodies -----------------------------------------------------------
IdempotencyKeys == {"key-1", "key-2"}

EmptyBody ==
    [ caller_id |-> Absent, org_id |-> Absent, simulation_type |-> Absent,
      simulation_context |-> Absent, idempotency_key |-> Absent,
      intent_description |-> Absent,
      execution_id |-> NoId, authority_signature |-> NoSig,
      status |-> Absent, limit |-> NoText, offset |-> NoText,
      x_correlation_id |-> NoHeader, x_request_id |-> NoHeader ]

\* two well-formed payloads that differ in every descriptive field
Payload1 ==
    [EmptyBody EXCEPT !.caller_id = "caller-1", !.org_id = "org-1",
                      !.simulation_type = "type-1",
                      !.simulation_context = "ctx-1"]
Payload2 ==
    [EmptyBody EXCEPT !.caller_id = "caller-2", !.org_id = "org-2",
                      !.simulation_type = "type-2",
                      !.simulation_context = "ctx-2"]

\* bodies of POST /v1/executions/accept: well-formed ones with and without
\* an idempotency key, and one without its required caller_id
AcceptBodies ==
    { [Payload1 EXCEPT !.idempotency_key = k] :
        k \in IdempotencyKeys \cup {Absent, ""} }
    \cup { [Payload2 EXCEPT !.idempotency_key = "key-1"] }
    \cup { [Payload1 EXCEPT !.caller_id = Absent, !.idempotency_key = "key-1"] }

\* bodies of POST /v1/simulations
SimulationBodies ==
    { [EmptyBody EXCEPT !.intent_description = d] : d \in {Absent, "intent-1"} }

\* locals of a request that has not started; `error` is what the try block
\* threw, `seen` records the execution id of the row that the request's key
\* or id named when the request arrived (NoId if there was none)
IdleReq ==
    [ op |-> "none", pc |-> "idle", body |-> EmptyBody,
      executionId |-> NoId, rootSpanId |-> 0, createdAt |-> NoTime,
      authoritySignature |-> NoSig, error |-> "none", seen |-> NoId,
      total |-> 0, correlationId |-> NoHeader ]

NoResp ==
    [ status |-> 0, error |-> Absent, execution_id |-> NoId,
      authority_signature |-> NoSig, created_at |-> NoTime,
      parent_span_id |-> 0, valid |-> Absent, reason |-> Absent,
      details |-> {}, data |-> <<>>, total |-> 0, limit |-> 0, offset |-> 0 ]

\* a call slot on which no call has been made
\* no response sent: of the handler that makes a client call
NoReply == [status |-> 0, error |-> Absent, ready |-> Absent]

IdleCall ==
    [ op |-> "none", pc |-> "idle", result |-> "none", admitted |-> "none",
      startTime |-> 0, thrown |-> <<>>, reply |-> NoReply ]

\* the immutability guard before any statement was handed to it: `via` is
\* the entry point, `query` the statement as its words, `thrown` whether the
\* guard threw, `invoked` whether the wrapped query function was called
IdleGuard == [via |-> "none", query |-> <<>>, thrown |-> FALSE, invoked |-> FALSE]

\* a backing store with nothing in it
NoStore == [connected |-> FALSE, tables |-> {}, indexes |-> {}, constraints |-> {}]

\* verifyStorageHealth before the service starts: `pending` are the checks of
\* Promise.all that have not returned, `outcome` is "returned" or "thrown"
IdleStartup ==
    [ pc |-> "idle", production |-> FALSE, store |-> NoStore, pending |-> {},
      connected |-> FALSE, tablesMissing |-> {}, indexesMissing |-> {},
      appendOnlyOk |-> FALSE, outcome |-> "none" ]

\* a request body of POST /v1/simulations as the CLI may send it: the intent
\* under any of its four names, and two of the other fields
NoFields ==
    [ intent_description |-> Absent, intent |-> Absent, scenario |-> Absent,
      description |-> Absent, caller_id |-> Absent, org_id |-> Absent ]

\* normalizePayload before it is called
IdlePayload == [pc |-> "idle", body |-> NoFields, normalized |-> NoFields]

\* the signing primitive before its first use: what was signed, and what
\* verifyExecutionSignature was then called with and returned
IdleAuthority ==
    [ pc |-> "idle", executionId |-> NoId, timestamp |-> NoTime, secret |-> 0,
      signature |-> NoSig, verifyId |-> NoId, verifyTimestamp |-> NoTime,
      verifySecret |-> 0, result |-> FALSE, thrown |-> "none" ]

Init ==
    /\ ledger = {}
    /\ req = [r \in Reqs |-> IdleReq]
    /\ resp = [r \in Reqs |-> NoResp]
    /\ now = 0
    /\ uuids = 0
    /\ circuitState = "CLOSED"
    /\ failureCount = 0
    /\ lastFailureTime = 0
    /\ call = [c \in Calls |-> IdleCall]
    /\ streak = 0
    /\ recovered = FALSE
    /\ guard = IdleGuard
    /\ startup = IdleStartup
    /\ authority = IdleAuthority
    /\ payload = IdlePayload

\* ------------------------------------------------------------------------
\* The executions table (DatabaseClient.initialize, DatabaseClient.query)
\* ------------------------------------------------------------------------

\* execution_id TEXT PRIMARY KEY
PrimaryKeyViolation(rows, row) ==
    \E x \in rows : x.execution_id = row.execution_id

\* the table without its unique index on idempotency_key
UniqueKeyViolationNoIndex(rows, row) == FALSE

\* CREATE UNIQUE INDEX idx_executions_idempotency_key
\*   ON executions(idempotency_key) WHERE idempotency_key IS NOT NULL
UniqueKeyViolation(rows, row) ==
    /\ row.idempotency_key # Null
    /\ \E x \in rows : x.idempotency_key = row.idempotency_key

\* INSERT INTO executions ...: the error the statement raises, "none" if the
\* row is appended
InsertError(rows, row) ==
    IF PrimaryKeyViolation(rows, row) THEN "unique_violation"
    ELSE IF UniqueKeyViolation(rows, row) THEN "unique_violation"
    ELSE "none"

\* an INSERT that replaces the rows stored under the same idempotency_key
AppendRowUpsert(rows, row) ==
    {x \in rows : x.idempotency_key # row.idempotency_key} \cup {row}

\* an INSERT that reports success and stores nothing
AppendRowLost(rows, row) == rows

\* the table after a successful INSERT
AppendRow(rows, row) == rows \cup {row}

\* SELECT ... FROM executions WHERE idempotency_key = $1
SelectByIdempotencyKey(rows, key) == {x \in rows : x.idempotency_key = key}

\* SELECT ... FROM executions WHERE execution_id = $1
SelectByExecutionId(rows, id) == {x \in rows : x.execution_id = id}

\* created_at TIMESTAMPTZ: the ISO string written is parsed to its instant
ParseTimestamptz(iso) == iso[2]

\* what the driver hands back for a TIMESTAMPTZ column: a Date object. In a
\* template literal it renders through Date#toString, in res.json through
\* Date#toJSON (the ISO string).
ReadCreatedAt(row) == DateToString(row.created_at)
JsonCreatedAt(row) == ToISOString(row.created_at)

\* requests are numbered in their order of arrival
Arrives(r) ==
    /\ req[r].pc = "idle"
    /\ \A q \in Reqs : q < r => req[q].pc # "idle"

\* generateCorrelationId(): a uuid of its own for request r
generateCorrelationId(r) == <<"uuid", r>>

\* a header value is <<"string", v>> or <<"array", v1, v2, ...>>; the empty
\* string is falsy
TruthyHeader(h) == h # NoHeader /\ h # <<"string", "">>

\* a lookup that asks for x-request-id first
getOrCreateCorrelationIdRequestFirst(headers, r) ==
    LET correlationId == IF TruthyHeader(headers.x_request_id)
                         THEN headers.x_request_id
                         ELSE headers.x_correlation_id
    IN  IF correlationId[1] = "string" THEN correlationId
        ELSE IF correlationId[1] = "array" /\ Len(correlationId) > 1
             THEN <<"string", correlationId[2]>>
        ELSE generateCorrelationId(r)

\* getOrCreateCorrelationId(req.headers), whose result the handler sets as
\* the x-correlation-id header of its response before anything else
getOrCreateCorrelationId(headers, r) ==
    LET correlationId == IF TruthyHeader(headers.x_correlation_id)
                         THEN headers.x_correlation_id
                         ELSE headers.x_request_id
    IN  IF correlationId[1] = "string" THEN correlationId
        ELSE IF correlationId[1] = "array" /\ Len(correlationId) > 1
             THEN <<"string", correlationId[2]>>
        ELSE generateCorrelationId(r)

\* ------------------------------------------------------------------------
\* Request validation (zod schemas)
\* ------------------------------------------------------------------------
\* strings of 2000 and of 2001 characters ('x'.repeat(n)), by name
Chars2000 == "<x * 2000>"
Chars2001 == "<x * 2001>"

\* the length of a string
StrLen(v) ==
    CASE v = Chars2000 -> 2000
      [] v = Chars2001 -> 2001
      [] OTHER -> Len(v)

\* z.string().min(lo).max(hi)
IsString(v, lo, hi) == v # Absent /\ StrLen(v) >= lo /\ StrLen(v) <= hi

\* z.string().min(lo).max(hi).optional()
IsOptionalString(v, lo, hi) == v = Absent \/ IsString(v, lo, hi)

\* The issues of a ZodError are modelled by their paths: the fields that fail
\* their check.

\* the issues acceptExecutionSchema.parse(req.body) throws with
acceptExecutionIssues(body) ==
    { f \in {"caller_id", "org_id", "simulation_type",
             "simulation_context", "idempotency_key"} :
        ~ CASE f = "caller_id" -> IsString(body.caller_id, 1, 255)
          [] f = "org_id" -> IsString(body.org_id, 1, 255)
          [] f = "simulation_type" -> IsString(body.simulation_type, 1, 100)
          [] f = "simulation_context" -> body.simulation_context # Absent
          [] f = "idempotency_key" ->
                 IsOptionalString(body.idempotency_key, 0, 255) }

\* acceptExecutionSchema.parse(req.body) does not throw
acceptExecutionSchema(body) == acceptExecutionIssues(body) = {}

\* a schema that lets an intent_description of 2001 characters pass
acceptanceRequestIssuesOffByOne(body) ==
    { f \in {"intent_description", "caller_id", "org_id", "simulation_type"} :
        ~ CASE f = "intent_description" ->
                 IsString(body.intent_description, 1, 2001)
          [] f = "caller_id" -> IsOptionalString(body.caller_id, 1, 255)
          [] f = "org_id" -> IsOptionalString(body.org_id, 1, 255)
          [] f = "simulation_type" ->
                 IsOptionalString(body.simulation_type, 1, 100) }

\* the issues acceptanceRequestSchema.parse(req.body) throws with
acceptanceRequestIssues(body) ==
    { f \in {"intent_description", "caller_id", "org_id", "simulation_type"} :
        ~ CASE f = "intent_description" ->
                 IsString(body.intent_description, 1, 2000)
          [] f = "caller_id" -> IsOptionalString(body.caller_id, 1, 255)
          [] f = "org_id" -> IsOptionalString(body.org_id, 1, 255)
          [] f = "simulation_type" ->
                 IsOptionalString(body.simulation_type, 1, 100) }

\* acceptanceRequestSchema.parse(req.body) does not throw
acceptanceRequestSchema(body) == acceptanceRequestIssues(body) = {}

\* the issues validateExecutionSchema.parse(req.body) throws with
validateExecutionIssues(body) ==
    { f \in {"execution_id", "authority_signature"} :
        ~ CASE f = "execution_id" -> body.execution_id # NoId
          [] f = "authority_signature" -> Len(body.authority_signature) >= 1 }

\* validateExecutionSchema.parse(req.body) does not throw
validateExecutionSchema(body) == validateExecutionIssues(body) = {}

\* JavaScript truthiness of an optional string: undefined and "" are falsy
Truthy(v) == v # Absent /\ v # ""

\* a parameter that turns only a missing value into null
OrNullIfMissing(v) == IF v # Absent THEN v ELSE Null

\* `v || null` as an INSERT parameter
OrNull(v) == IF Truthy(v) THEN v ELSE Null

\* ------------------------------------------------------------------------
\* Responses
\* ------------------------------------------------------------------------
\* res.status(400).json({error: 'validation_error', ..., details})
ValidationErrorResponse ==
    [NoResp EXCEPT !.status = 400, !.error = "validation_error"]

\* a 400 that does not say which fields failed
ZodErrorResponseBare(issues) == ValidationErrorResponse

\* the same with details: error.errors.map(e => ({path, message}))
ZodErrorResponse(issues) == [ValidationErrorResponse EXCEPT !.details = issues]

\* res.status(500).json({error: 'internal_error', message, correlationId})
InternalErrorResponse ==
    [NoResp EXCEPT !.status = 500, !.error = "internal_error"]

\* a replay that answers from the request at hand: signs the stored id anew
ReplayResponseResigned(record) ==
    [NoResp EXCEPT !.status = 200,
                   !.execution_id = record.execution_id,
                   !.authority_signature =
                       signExecution(record.execution_id, ToISOString(now),
                                     hmacSecret),
                   !.created_at = ToISOString(now)]

\* the AcceptExecutionResponse built from a stored record (idempotent replay)
ReplayResponse(record) ==
    [NoResp EXCEPT !.status = 200,
                   !.execution_id = record.execution_id,
                   !.authority_signature = record.authority_signature,
                   !.created_at = JsonCreatedAt(record),
                   !.parent_span_id = 0]

\* a fresh mint that is answered 202 Accepted
MintResponseAccepted202(rq) ==
    [NoResp EXCEPT !.status = 202,
                   !.execution_id = rq.executionId,
                   !.authority_signature = rq.authoritySignature,
                   !.created_at = rq.createdAt]

\* the AcceptExecutionResponse of a fresh mint
MintResponse(rq) ==
    [NoResp EXCEPT !.status = 201,
                   !.execution_id = rq.executionId,
                   !.authority_signature = rq.authoritySignature,
                   !.created_at = rq.createdAt]

\* the AcceptanceResponse of POST /v1/simulations
AcceptanceResponse(rq) ==
    [NoResp EXCEPT !.status = 200,
                   !.execution_id = rq.executionId,
                   !.parent_span_id = rq.rootSpanId,
                   !.created_at = rq.createdAt]

\* a validate that answers 404 for an unknown id, as the GET route does
ValidateResponseNotFound404(isValid, why) ==
    [NoResp EXCEPT !.status = IF why = "execution_not_found" THEN 404 ELSE 200,
                   !.valid = IF isValid THEN "true" ELSE "false",
                   !.reason = why]

\* the ValidateExecutionResponse
ValidateResponse(isValid, why) ==
    [NoResp EXCEPT !.status = 200,
                   !.valid = IF isValid THEN "true" ELSE "false",
                   !.reason = why]

\* ------------------------------------------------------------------------
\* POST /v1/executions/accept
\* ------------------------------------------------------------------------
\* mintExecutionId(), generateRootSpanId(), new Date().toISOString(),
\* signExecution(...): the locals of a request after minting
Minted(rq) ==
    [rq EXCEPT !.executionId = mintExecutionId(uuids + 1),
               !.rootSpanId = uuids + 2,
               !.createdAt = ToISOString(now),
               !.authoritySignature =
                   signExecution(mintExecutionId(uuids + 1), ToISOString(now),
                                 hmacSecret),
               !.pc = "insert"]

\* the parameters of the INSERT of acceptExecutionHandler, as the row stored
ExecutionRow(rq) ==
    [ execution_id |-> rq.executionId,
      accepted |-> TRUE,
      caller_id |-> rq.body.caller_id,
      org_id |-> rq.body.org_id,
      simulation_type |-> rq.body.simulation_type,
      simulation_context |-> rq.body.simulation_context,
      authority_signature |-> rq.authoritySignature,
      root_span_id |-> rq.rootSpanId,
      lineage |-> [root_span_id |-> rq.rootSpanId, parent_span_id |-> Null],
      idempotency_key |-> OrNull(rq.body.idempotency_key),
      created_at |-> ParseTimestamptz(rq.createdAt) ]

\* the row an idempotency key names on arrival
SeenByKey(key) ==
    IF Truthy(key) /\ SelectByIdempotencyKey(ledger, key) # {}
    THEN (CHOOSE x \in SelectByIdempotencyKey(ledger, key) : TRUE).execution_id
    ELSE NoId

\* the row an execution id names on arrival
SeenById(id) ==
    IF SelectByExecutionId(ledger, id) # {} THEN id ELSE NoId

\* a catch block that reports the failure together with the id it minted
AcceptFailedLeaking(r, e) ==
    /\ req' = [req EXCEPT ![r].pc = "done", ![r].error = e]
    /\ resp' = [resp EXCEPT ![r] =
                   [InternalErrorResponse EXCEPT
                       !.execution_id = req[r].executionId]]
    /\ UNCHANGED <<ledger, uuids>>

\* the catch block of acceptExecutionHandler for an error of dbClient.query
AcceptFailed(r, e) ==
    /\ req' = [req EXCEPT ![r].pc = "done", ![r].error = e]
    /\ resp' = [resp EXCEPT ![r] = InternalErrorResponse]
    /\ UNCHANGED <<ledger, uuids>>

\* from the call to the first await: parse the body, then either issue the
\* lookup by idempotency key or mint and issue the INSERT
AcceptBegin(r, body) ==
    /\ Arrives(r)
    /\ LET rq == [req[r] EXCEPT !.op = "accept", !.body = body,
                     !.correlationId = getOrCreateCorrelationId(body, r),
                     !.seen = SeenByKey(body.idempotency_key)]
       IN  IF ~acceptExecutionSchema(body)
           THEN /\ req' = [req EXCEPT ![r] = [rq EXCEPT !.pc = "done",
                                                        !.error = "ZodError"]]
                /\ resp' = [resp EXCEPT ![r] =
                               ZodErrorResponse(acceptExecutionIssues(body))]
                /\ UNCHANGED uuids
           ELSE IF Truthy(body.idempotency_key)
           THEN /\ req' = [req EXCEPT ![r] = [rq EXCEPT !.pc = "lookup"]]
                /\ UNCHANGED <<resp, uuids>>
           ELSE /\ req' = [req EXCEPT ![r] = Minted(rq)]
                /\ uuids' = uuids + 2
                /\ UNCHANGED resp
    /\ UNCHANGED <<ledger, now, clientVars, libVars>>

\* the idempotency lookup returns (or throws): replay the stored record, or
\* mint and issue the INSERT
AcceptLookup(r, dbUp) ==
    /\ req[r].op = "accept" /\ req[r].pc = "lookup"
    /\ IF ~dbUp THEN AcceptFailed(r, "db_unavailable")
       ELSE LET rows == SelectByIdempotencyKey(ledger, req[r].body.idempotency_key)
            IN  IF rows # {}
                THEN /\ req' = [req EXCEPT ![r].pc = "done"]
                     /\ resp' = [resp EXCEPT ![r] =
                                    ReplayResponse(CHOOSE x \in rows : TRUE)]
                     /\ UNCHANGED <<ledger, uuids>>
                ELSE /\ req' = [req EXCEPT ![r] = Minted(req[r])]
                     /\ uuids' = uuids + 2
                     /\ UNCHANGED <<ledger, resp>>
    /\ UNCHANGED <<now, clientVars, libVars>>

\* the INSERT returns (or throws): respond 201, or fall into the catch block
AcceptInsert(r, dbUp) ==
    /\ req[r].op = "accept" /\ req[r].pc = "insert"
    /\ LET row == ExecutionRow(req[r])
           e == IF dbUp THEN InsertError(ledger, row) ELSE "db_unavailable"
       IN  IF e # "none" THEN AcceptFailed(r, e)
           ELSE /\ ledger' = AppendRow(ledger, row)
                /\ req' = [req EXCEPT ![r].pc = "done"]
                /\ resp' = [resp EXCEPT ![r] = MintResponse(req[r])]
                /\ UNCHANGED uuids
    /\ UNCHANGED <<now, clientVars, libVars>>

\* ------------------------------------------------------------------------
\* POST /v1/simulations (authority mint, src/handlers/simulations.ts)
\* ------------------------------------------------------------------------
\* the literal 'authority-mint' stored in column authority_signature
AuthorityMint ==
    <<"a", "u", "t", "h", "o", "r", "i", "t", "y", "-", "m", "i", "n", "t">>

\* mintExecutionId(), generateRootSpanId(), new Date().toISOString(); this
\* handler does not sign
SimulationMinted(rq) ==
    [rq EXCEPT !.executionId = mintExecutionId(uuids + 1),
               !.rootSpanId = uuids + 2,
               !.createdAt = ToISOString(now),
               !.pc = "insert"]

\* a handler that draws a second id for the span of the lineage seed
SimulationRowOwnSpan(rq) ==
    [ execution_id |-> rq.executionId,
      accepted |-> TRUE,
      caller_id |-> OrNull(rq.body.caller_id),
      org_id |-> OrNull(rq.body.org_id),
      simulation_type |-> OrNull(rq.body.simulation_type),
      simulation_context |-> rq.body.simulation_context,
      authority_signature |-> AuthorityMint,
      root_span_id |-> rq.rootSpanId,
      lineage |-> [root_span_id |-> rq.rootSpanId + 1, parent_span_id |-> Null],
      idempotency_key |-> Null,
      created_at |-> ParseTimestamptz(rq.createdAt) ]

\* the parameters of the INSERT of acceptSimulationHandler, as the row stored
SimulationRow(rq) ==
    [ execution_id |-> rq.executionId,
      accepted |-> TRUE,
      caller_id |-> OrNull(rq.body.caller_id),
      org_id |-> OrNull(rq.body.org_id),
      simulation_type |-> OrNull(rq.body.simulation_type),
      simulation_context |-> rq.body.simulation_context,
      authority_signature |-> AuthorityMint,
      root_span_id |-> rq.rootSpanId,
      lineage |-> [root_span_id |-> rq.rootSpanId, parent_span_id |-> Null],
      idempotency_key |-> Null,
      created_at |-> ParseTimestamptz(rq.createdAt) ]

\* the catch block of acceptSimulationHandler: fail closed
SimulationFailed(r, e) ==
    /\ req' = [req EXCEPT ![r].pc = "done", ![r].error = e]
    /\ resp' = [resp EXCEPT ![r] = InternalErrorResponse]
    /\ UNCHANGED <<ledger, uuids>>

\* the id that an earlier call of this route with the same idempotency key
\* has been answered with (NoId if there is none)
SeenBySimulationKey(key) ==
    LET earlier == {q \in Reqs : /\ req[q].op = "simulate" /\ req[q].pc = "done"
                                 /\ resp[q].status = 200
                                 /\ req[q].body.idempotency_key = key}
    IN  IF Truthy(key) /\ earlier # {}
        THEN resp[CHOOSE q \in earlier : TRUE].execution_id
        ELSE NoId

\* from the call to the await of the INSERT
SimulationBegin(r, body) ==
    /\ Arrives(r)
    /\ LET rq == [req[r] EXCEPT !.op = "simulate", !.body = body,
                     !.correlationId = getOrCreateCorrelationId(body, r),
                                !.seen = SeenBySimulationKey(body.idempotency_key)]
       IN  IF ~acceptanceRequestSchema(body)
           THEN /\ req' = [req EXCEPT ![r] = [rq EXCEPT !.pc = "done",
                                                        !.error = "ZodError"]]
                /\ resp' = [resp EXCEPT ![r] =
                               ZodErrorResponse(acceptanceRequestIssues(body))]
                /\ UNCHANGED uuids
           ELSE /\ req' = [req EXCEPT ![r] = SimulationMinted(rq)]
                /\ uuids' = uuids + 2
                /\ UNCHANGED resp
    /\ UNCHANGED <<ledger, now, clientVars, libVars>>

\* the INSERT returns (or throws): respond 200, or fail closed with 500
SimulationInsert(r, dbUp) ==
    /\ req[r].op = "simulate" /\ req[r].pc = "insert"
    /\ LET row == SimulationRow(req[r])
           e == IF dbUp THEN InsertError(ledger, row) ELSE "db_unavailable"
       IN  IF e # "none" THEN SimulationFailed(r, e)
           ELSE /\ ledger' = AppendRow(ledger, row)
                /\ req' = [req EXCEPT ![r].pc = "done"]
                /\ resp' = [resp EXCEPT ![r] = AcceptanceResponse(req[r])]
                /\ UNCHANGED uuids
    /\ UNCHANGED <<now, clientVars, libVars>>

\* ------------------------------------------------------------------------
\* POST /v1/executions/validate
\* ------------------------------------------------------------------------
\* the next hex digit, and the strings that differ from sig in one character:
\* the other case of a letter, another hex digit, a character that is no hex
\* digit
NextHex(c) == IF IsHexChar(c) THEN HexOf((HexVal(c) + 1) % 16) ELSE "0"

AlteredSignatures(sig) ==
    UNION { { [sig EXCEPT ![i] = c] :
                c \in {ToUpper(sig[i]), NextHex(sig[i]), "g"} } :
            i \in 1..Len(sig) }
    \ {sig}

\* the number of positions in which two strings of the same length differ
Distance(s, t) == Cardinality({i \in 1..Len(s) : s[i] # t[i]})

\* signatures a caller may present for an id: what accept handed out, what
\* the authority recomputes from the row it reads, strings one character
\* away from either, and a string of another length
CandidateSignatures(id) ==
    LET rows == SelectByExecutionId(ledger, id)
        base == UNION { {x.authority_signature,
                         signExecution(id, ReadCreatedAt(x), hmacSecret)} :
                        x \in rows }
    IN  base \cup UNION {AlteredSignatures(b) : b \in base}
             \cup {signExecution(id, ToISOString(now), hmacSecret), <<"a", "b">>}

\* execution ids a caller may present: the ones minted so far, stored or not,
\* and exec-0, which is never minted
CandidateIds ==
    {mintExecutionId(0)} \cup ({req[q].executionId : q \in Reqs} \ {NoId})

\* bodies of POST /v1/executions/validate: a candidate id with a candidate
\* signature, and the empty body
ValidateBodies ==
    UNION { { [EmptyBody EXCEPT !.execution_id = id,
                                !.authority_signature = sig] :
                sig \in CandidateSignatures(id) } :
            id \in CandidateIds }
    \cup {EmptyBody}

\* a catch block that reports a failed lookup as a negative verdict
ValidateFailedAsInvalid ==
    [NoResp EXCEPT !.status = 200, !.valid = "false",
                   !.reason = "execution_not_found"]

\* the catch block of validateExecutionHandler for an error of the lookup
ValidateFailedResponse == InternalErrorResponse

\* from the call to the await of the lookup
ValidateBegin(r, body) ==
    /\ Arrives(r)
    /\ LET rq == [req[r] EXCEPT !.op = "validate", !.body = body,
                     !.correlationId = getOrCreateCorrelationId(body, r),
                                !.seen = SeenById(body.execution_id)]
       IN  IF ~validateExecutionSchema(body)
           THEN /\ req' = [req EXCEPT ![r] = [rq EXCEPT !.pc = "done",
                                                        !.error = "ZodError"]]
                /\ resp' = [resp EXCEPT ![r] =
                               ZodErrorResponse(validateExecutionIssues(body))]
           ELSE /\ req' = [req EXCEPT ![r] = [rq EXCEPT !.pc = "lookup"]]
                /\ UNCHANGED resp
    /\ UNCHANGED <<ledger, now, uuids, clientVars, libVars>>

\* a validate that uses its record up: the row is deleted once its signature
\* has been verified
ValidateLookupConsuming(r, dbUp) ==
    /\ req[r].op = "validate" /\ req[r].pc = "lookup"
    /\ IF ~dbUp
       THEN /\ req' = [req EXCEPT ![r].pc = "done", ![r].error = "db_unavailable"]
            /\ resp' = [resp EXCEPT ![r] = ValidateFailedResponse]
            /\ UNCHANGED ledger
       ELSE LET rows == SelectByExecutionId(ledger, req[r].body.execution_id)
            IN  /\ req' = [req EXCEPT ![r].pc = "done"]
                /\ IF rows = {}
                   THEN /\ resp' = [resp EXCEPT ![r] =
                                    ValidateResponse(FALSE, "execution_not_found")]
                        /\ UNCHANGED ledger
                   ELSE LET record == CHOOSE x \in rows : TRUE
                            isValid == verifyExecutionSignature(
                                           record.execution_id,
                                           ReadCreatedAt(record),
                                           req[r].body.authority_signature,
                                           hmacSecret)
                        IN  /\ resp' = [resp EXCEPT ![r] =
                                  ValidateResponse(isValid,
                                    IF isValid THEN Null ELSE "signature_mismatch")]
                            /\ ledger' = IF isValid THEN ledger \ rows ELSE ledger
    /\ UNCHANGED <<now, uuids, clientVars, libVars>>

\* the lookup returns (or throws): not found, or the verdict on the signature
\* recomputed from the row read
ValidateLookup(r, dbUp) ==
    /\ req[r].op = "validate" /\ req[r].pc = "lookup"
    /\ IF ~dbUp
       THEN /\ req' = [req EXCEPT ![r].pc = "done", ![r].error = "db_unavailable"]
            /\ resp' = [resp EXCEPT ![r] = ValidateFailedResponse]
       ELSE LET rows == SelectByExecutionId(ledger, req[r].body.execution_id)
            IN  /\ req' = [req EXCEPT ![r].pc = "done"]
                /\ IF rows = {}
                   THEN resp' = [resp EXCEPT ![r] =
                                    ValidateResponse(FALSE, "execution_not_found")]
                   ELSE LET record == CHOOSE x \in rows : TRUE
                            isValid == verifyExecutionSignature(
                                           record.execution_id,
                                           ReadCreatedAt(record),
                                           req[r].body.authority_signature,
                                           hmacSecret)
                        IN  resp' = [resp EXCEPT ![r] =
                                ValidateResponse(isValid,
                                    IF isValid THEN Null ELSE "signature_mismatch")]
    /\ UNCHANGED <<ledger, now, uuids, clientVars, libVars>>

\* ------------------------------------------------------------------------
\* GET /v1/executions/:id
\* ------------------------------------------------------------------------
\* res.status(404).json({error: 'not_found', ...})
NotFoundResponse == [NoResp EXCEPT !.status = 404, !.error = "not_found"]

\* res.status(200).json(result.rows[0]): the record as JSON
RecordResponse(record) ==
    [NoResp EXCEPT !.status = 200,
                   !.execution_id = record.execution_id,
                   !.authority_signature = record.authority_signature,
                   !.created_at = JsonCreatedAt(record),
                   !.data = <<record>>]

\* from the call to the await of the SELECT; `!id` answers 400; the request
\* is its id and its headers
GetBegin(r, request) ==
    /\ Arrives(r)
    /\ LET id == request.execution_id
           rq == [req[r] EXCEPT !.op = "get", !.body = request,
                     !.correlationId = getOrCreateCorrelationId(request, r),
                     !.seen = SeenById(id)]
       IN  IF id = NoId
           THEN /\ req' = [req EXCEPT ![r] = [rq EXCEPT !.pc = "done"]]
                /\ resp' = [resp EXCEPT ![r] = ValidationErrorResponse]
           ELSE /\ req' = [req EXCEPT ![r] = [rq EXCEPT !.pc = "lookup"]]
                /\ UNCHANGED resp
    /\ UNCHANGED <<ledger, now, uuids, clientVars, libVars>>

\* the SELECT returns (or throws): 404, the record, or 500
GetLookup(r, dbUp) ==
    /\ req[r].op = "get" /\ req[r].pc = "lookup"
    /\ IF ~dbUp
       THEN /\ req' = [req EXCEPT ![r].pc = "done", ![r].error = "db_unavailable"]
            /\ resp' = [resp EXCEPT ![r] = InternalErrorResponse]
       ELSE LET rows == SelectByExecutionId(ledger, req[r].body.execution_id)
            IN  /\ req' = [req EXCEPT ![r].pc = "done"]
                /\ resp' = [resp EXCEPT ![r] =
                               IF rows = {} THEN NotFoundResponse
                               ELSE RecordResponse(CHOOSE x \in rows : TRUE)]
    /\ UNCHANGED <<ledger, now, uuids, clientVars, libVars>>

\* ------------------------------------------------------------------------
\* GET /v1/executions
\* ------------------------------------------------------------------------
DecDigits == <<"0", "1", "2", "3", "4", "5", "6", "7", "8", "9">>

IsDigit(c) == \E i \in 1..10 : c = DecDigits[i]

DigitVal(c) == (CHOOSE i \in 1..10 : c = DecDigits[i]) - 1

\* the string without its leading white space
RECURSIVE TrimStart(_)
TrimStart(s) ==
    IF s # <<>> /\ s[1] = " " THEN TrimStart(Tail(s)) ELSE s

\* the value of the decimal digits s starts with, read after acc
RECURSIVE DigitsValue(_, _)
DigitsValue(s, acc) ==
    IF s = <<>> \/ ~IsDigit(s[1]) THEN acc
    ELSE DigitsValue(Tail(s), 10 * acc + DigitVal(s[1]))

NaN == [nan |-> TRUE, value |-> 0]

\* parseInt(s, 10): leading white space and one sign are skipped, the digits
\* up to the first other character are read; NaN if there is no digit
parseInt(s) ==
    LET t == TrimStart(s)
        signed == t # <<>> /\ t[1] \in {"-", "+"}
        u == IF signed THEN Tail(t) ELSE t
    IN  IF u = <<>> \/ ~IsDigit(u[1]) THEN NaN
        ELSE [nan |-> FALSE,
              value |-> IF signed /\ t[1] = "-" THEN 0 - DigitsValue(u, 0)
                        ELSE DigitsValue(u, 0)]

\* `parseInt(...) || d`: NaN and 0 are falsy
OrElse(p, d) == IF p.nan \/ p.value = 0 THEN d ELSE p.value

Max(a, b) == IF a >= b THEN a ELSE b
Min(a, b) == IF a <= b THEN a ELSE b

\* a limit that is capped at 1000 and has no floor
parsedLimitNoFloor(query) ==
    Min(OrElse(parseInt(IF query.limit = NoText THEN <<"5", "0">>
                        ELSE query.limit), 50), 1000)

\* const { limit = '50', offset = '0' } = req.query, and the two clamps
parsedLimit(query) ==
    Min(Max(OrElse(parseInt(IF query.limit = NoText THEN <<"5", "0">>
                            ELSE query.limit), 50), 1), 1000)

parsedOffset(query) ==
    Max(OrElse(parseInt(IF query.offset = NoText THEN <<"0">>
                        ELSE query.offset), 0), 0)

\* the WHERE clause built from caller_id, org_id and status
WhereClause(query, x) ==
    /\ Truthy(query.caller_id) => x.caller_id = query.caller_id
    /\ Truthy(query.org_id) => x.org_id = query.org_id
    /\ query.status \in {"accepted", "rejected"} =>
           x.accepted = (query.status = "accepted")

\* ORDER BY created_at DESC: the orders the database may return rows in
Orderings(rows) ==
    { s \in [1..Cardinality(rows) -> rows] :
        \A i, j \in 1..Cardinality(rows) :
            i < j => s[i] # s[j] /\ s[i].created_at >= s[j].created_at }

\* LIMIT l OFFSET o
Page(s, l, o) == [i \in 1..Max(Min(l, Len(s) - o), 0) |-> s[o + i]]

\* query strings of GET /v1/executions
ListQueries ==
    { EmptyBody,
      [EmptyBody EXCEPT !.caller_id = "caller-1", !.limit = <<"1">>],
      [EmptyBody EXCEPT !.status = "rejected", !.offset = <<"1">>],
      [EmptyBody EXCEPT !.limit = <<"0">>, !.offset = <<"-", "1">>] }

\* from the call to the await of the COUNT
ListBegin(r, query) ==
    /\ Arrives(r)
    /\ req' = [req EXCEPT ![r] =
                  [req[r] EXCEPT !.op = "list", !.body = query, !.pc = "count",
                     !.correlationId = getOrCreateCorrelationId(query, r)]]
    /\ UNCHANGED <<ledger, resp, now, uuids, clientVars, libVars>>

\* the COUNT returns (or throws), to the await of the page
ListCount(r, dbUp) ==
    /\ req[r].op = "list" /\ req[r].pc = "count"
    /\ IF ~dbUp
       THEN /\ req' = [req EXCEPT ![r].pc = "done", ![r].error = "db_unavailable"]
            /\ resp' = [resp EXCEPT ![r] = InternalErrorResponse]
       ELSE /\ req' = [req EXCEPT
                  ![r].pc = "page",
                  ![r].total = Cardinality({x \in ledger :
                                               WhereClause(req[r].body, x)})]
            /\ UNCHANGED resp
    /\ UNCHANGED <<ledger, now, uuids, clientVars, libVars>>

\* the page returns (or throws): 200 {data, total, limit, offset}, or 500
ListPage(r, dbUp) ==
    /\ req[r].op = "list" /\ req[r].pc = "page"
    /\ IF ~dbUp
       THEN /\ req' = [req EXCEPT ![r].pc = "done", ![r].error = "db_unavailable"]
            /\ resp' = [resp EXCEPT ![r] = InternalErrorResponse]
       ELSE \E s \in Orderings({x \in ledger : WhereClause(req[r].body, x)}) :
                /\ req' = [req EXCEPT ![r].pc = "done"]
                /\ resp' = [resp EXCEPT ![r] =
                       [NoResp EXCEPT
                           !.status = 200,
                           !.data = Page(s, parsedLimit(req[r].body),
                                         parsedOffset(req[r].body)),
                           !.total = req[r].total,
                           !.limit = parsedLimit(req[r].body),
                           !.offset = parsedOffset(req[r].body)]]
    /\ UNCHANGED <<ledger, now, uuids, clientVars, libVars>>

\* the wall clock advances
Tick ==
    /\ now < MaxNow
    /\ now' = now + 1
    /\ UNCHANGED <<ledger, req, resp, uuids, clientVars, libVars>>

Next ==
    \/ \E r \in Reqs, body \in AcceptBodies : AcceptBegin(r, body)
    \/ \E r \in Reqs, dbUp \in BOOLEAN : AcceptLookup(r, dbUp)
    \/ \E r \in Reqs, dbUp \in BOOLEAN : AcceptInsert(r, dbUp)
    \/ \E r \in Reqs, body \in SimulationBodies : SimulationBegin(r, body)
    \/ \E r \in Reqs, dbUp \in BOOLEAN : SimulationInsert(r, dbUp)
    \/ \E r \in Reqs, body \in ValidateBodies : ValidateBegin(r, body)
    \/ \E r \in Reqs, dbUp \in BOOLEAN : ValidateLookup(r, dbUp)
    \/ Tick

Spec == Init /\ [][Next]_vars

\* ------------------------------------------------------------------------
\* The ledger under all its routes: accept, simulate, get, list, validate
\* ------------------------------------------------------------------------
\* execution ids a reader may ask for: as CandidateIds, and no id at all
ReadIds == CandidateIds \cup {NoId}

\* validate bodies that name a stored record with the signature it was issued
\* with or the one the authority recomputes, a body for exec-0, and the empty
\* body
StoredValidateBodies ==
    UNION { { [EmptyBody EXCEPT !.execution_id = x.execution_id,
                                !.authority_signature = sig] :
                sig \in {x.authority_signature,
                         signExecution(x.execution_id, ReadCreatedAt(x),
                                       hmacSecret)} } :
            x \in ledger }
    \cup {[EmptyBody EXCEPT !.execution_id = mintExecutionId(0),
                            !.authority_signature = <<"a", "b">>],
          EmptyBody}

\* accept bodies: one key with two payloads, no key, and bodies with missing
\* and with malformed fields
LedgerAcceptBodies ==
    { [Payload1 EXCEPT !.idempotency_key = k] : k \in {"key-1", Absent} }
    \cup { [Payload2 EXCEPT !.idempotency_key = "key-1"] }
    \cup { [Payload1 EXCEPT !.caller_id = Absent, !.idempotency_key = "key-1"],
           [Payload1 EXCEPT !.caller_id = "", !.simulation_context = Absent,
                            !.idempotency_key = "key-1"],
           [Payload1 EXCEPT !.simulation_type = Chars2001,
                            !.idempotency_key = "key-1"] }

NextLedger ==
    \/ \E r \in Reqs, body \in LedgerAcceptBodies : AcceptBegin(r, body)
    \/ \E r \in Reqs, dbUp \in BOOLEAN : AcceptLookup(r, dbUp)
    \/ \E r \in Reqs, dbUp \in BOOLEAN : AcceptInsert(r, dbUp)
    \/ \E r \in Reqs, body \in SimulationBodies : SimulationBegin(r, body)
    \/ \E r \in Reqs, dbUp \in BOOLEAN : SimulationInsert(r, dbUp)
    \/ \E r \in Reqs, body \in StoredValidateBodies : ValidateBegin(r, body)
    \/ \E r \in Reqs, dbUp \in BOOLEAN : ValidateLookup(r, dbUp)
    \/ \E r \in Reqs, id \in ReadIds :
           GetBegin(r, [EmptyBody EXCEPT !.execution_id = id])
    \/ \E r \in Reqs, dbUp \in BOOLEAN : GetLookup(r, dbUp)
    \/ \E r \in Reqs, query \in ListQueries : ListBegin(r, query)
    \/ \E r \in Reqs, dbUp \in BOOLEAN : ListCount(r, dbUp)
    \/ \E r \in Reqs, dbUp \in BOOLEAN : ListPage(r, dbUp)
    \/ Tick

SpecLedger == Init /\ [][NextLedger]_vars

\* ------------------------------------------------------------------------
\* POST /v1/simulations alone, with every kind of body
\* ------------------------------------------------------------------------
\* intent_description absent, empty, of 1, 8, 2000 and 2001 characters, alone
\* or with the descriptive fields; with and without an idempotency_key
IntentBodies ==
    { [EmptyBody EXCEPT !.intent_description = d] :
        d \in {Absent, "", "i", "intent-1", Chars2000, Chars2001} }
    \cup { [Payload1 EXCEPT !.intent_description = "intent-1"],
           [Payload1 EXCEPT !.intent_description = Chars2001],
           [EmptyBody EXCEPT !.intent_description = "intent-1",
                             !.idempotency_key = "key-1"] }

NextSimulations ==
    \/ \E r \in Reqs, body \in IntentBodies : SimulationBegin(r, body)
    \/ \E r \in Reqs, dbUp \in BOOLEAN : SimulationInsert(r, dbUp)
    \/ Tick

SpecSimulations == Init /\ [][NextSimulations]_vars

\* ------------------------------------------------------------------------
\* VectorClient: the circuit breaker around the calls to RuvVector
\* ------------------------------------------------------------------------
\* A call runs checkCircuit() and then its try block; the try block stands
\* for the outbound call to RuvVector, at which the call is suspended and
\* which may throw; recordSuccess() or recordFailure() runs when it returns.

Operations == {"insert", "query", "similarity", "ping"}

\* a comparison that forgets when the last failure was
CoolDownElapsedSinceStart == now >= timeout

\* timeSinceFailure >= this.circuitConfig.timeout
CoolDownElapsed == now - lastFailureTime >= timeout

\* a check that starts a trial whenever the cool-down has elapsed, whatever
\* the state of the breaker
checkCircuitAnyState ==
    [ open |-> circuitState = "OPEN" /\ ~CoolDownElapsed,
      state |-> IF CoolDownElapsed THEN "HALF_OPEN" ELSE circuitState ]

\* checkCircuit(), and the same test at the head of ping(): whether the call
\* is turned away, and the circuit state after the check
checkCircuit ==
    [ open |-> circuitState = "OPEN" /\ ~CoolDownElapsed,
      state |-> IF circuitState = "OPEN" /\ CoolDownElapsed THEN "HALF_OPEN"
                ELSE circuitState ]

\* a recordSuccess() that closes the circuit and keeps the count
recordSuccessKeepCount ==
    [ state |-> IF circuitState = "HALF_OPEN" THEN "CLOSED" ELSE circuitState,
      count |-> failureCount,
      last |-> lastFailureTime ]

\* a recordSuccess() that tests for OPEN where the trial runs in HALF_OPEN
recordSuccessTestsOpen ==
    [ state |-> IF circuitState = "OPEN" THEN "CLOSED" ELSE circuitState,
      count |-> IF circuitState = "OPEN" THEN 0 ELSE failureCount,
      last |-> lastFailureTime ]

\* recordSuccess(): the fields of the client after it
recordSuccess ==
    [ state |-> IF circuitState = "HALF_OPEN" THEN "CLOSED" ELSE circuitState,
      count |-> IF circuitState = "HALF_OPEN" THEN 0 ELSE failureCount,
      last |-> lastFailureTime ]

\* a recordFailure() that opens the circuit one failure late
recordFailureLate ==
    [ state |-> IF circuitState = "HALF_OPEN" THEN "OPEN"
                ELSE IF failureCount + 1 > threshold THEN "OPEN"
                ELSE circuitState,
      count |-> failureCount + 1,
      last |-> now ]

\* recordFailure(): the fields of the client after it
recordFailure ==
    [ state |-> IF circuitState = "HALF_OPEN" THEN "OPEN"
                ELSE IF failureCount + 1 >= threshold THEN "OPEN"
                ELSE circuitState,
      count |-> failureCount + 1,
      last |-> now ]

\* what the caller gets: insert, query and similarity throw, ping answers
\* false
Rejected(op) == IF op = "ping" THEN "false" ELSE "circuit_open"
Succeeded(op) == IF op = "ping" THEN "true" ELSE "ok"
Failed(op) == IF op = "ping" THEN "false" ELSE "error"

\* error messages, as their words: the one checkCircuit() throws, and those
\* of failures of the outbound call (connection refused, request timed out)
CircuitOpenMessage ==
    <<"Circuit", "breaker", "is", "open", "-", "RuvVector", "unavailable">>
BackendMessages ==
    { <<"connect", "ECONNREFUSED">>, <<"RuvVector", "request", "timed", "out">> }

\* what insert, query and similarity throw at their caller; ping throws
\* nothing
Thrown(op, message) == IF op = "ping" THEN <<>> ELSE message

\* String.prototype.includes, word by word
Includes(message, words) ==
    \E i \in 1..(Len(message) - Len(words) + 1) :
        SubSeq(message, i, i + Len(words) - 1) = words

\* a catch block that reports every error of the client as an upstream error
UpstreamErrorReplyAlways502(thrown) ==
    [NoReply EXCEPT !.status = 502, !.error = "upstream_error"]

\* the catch block of queryHandler, ingestHandler and simulateHandler, and
\* the errorHandler middleware that answers with the AppError thrown there
UpstreamErrorReply(thrown) ==
    IF Includes(thrown, <<"Circuit", "breaker">>)
    THEN [NoReply EXCEPT !.status = 503, !.error = "service_unavailable"]
    ELSE [NoReply EXCEPT !.status = 502, !.error = "upstream_error"]

\* a readiness probe that lets a refusal of the client escape as an error
readyHandlerThrowing(ruvvectorConnected) ==
    IF ruvvectorConnected = "true"
    THEN [NoReply EXCEPT !.status = 200, !.ready = "ready"]
    ELSE [NoReply EXCEPT !.status = 500, !.error = "internal_error"]

\* readyHandler: GET /ready, on what ping() returned
readyHandler(ruvvectorConnected) ==
    IF ruvvectorConnected = "true"
    THEN [NoReply EXCEPT !.status = 200, !.ready = "ready"]
    ELSE [NoReply EXCEPT !.status = 503, !.ready = "not ready"]

\* the response of the handler that made the call: ingestHandler for
\* insert, queryHandler for query, simulateHandler for similarity and
\* readyHandler for ping
HandlerReply(op, result, thrown) ==
    IF op = "ping" THEN readyHandler(result)
    ELSE IF thrown # <<>> THEN UpstreamErrorReply(thrown)
    ELSE [NoReply EXCEPT !.status = IF op = "insert" THEN 201 ELSE 200]

\* calls take the lowest slot that has no call in flight
Free(c) ==
    /\ call[c].pc # "backend"
    /\ \A d \in Calls : d < c => call[d].pc = "backend"

\* call c returns to its caller: its slot keeps what it returned until the
\* next call returns
Returns(c, returned) ==
    [d \in Calls |-> IF d = c THEN returned
                     ELSE IF call[d].pc = "done" THEN IdleCall
                     ELSE call[d]]

\* a client whose check runs inside the try block, so that a call turned
\* away is caught and starts the cool-down anew
CallBeginRestartingCoolDown(c, op) ==
    /\ Free(c)
    /\ IF checkCircuit.open
       THEN /\ call' = Returns(c,
                   [ op |-> op, pc |-> "done", result |-> Rejected(op),
                     admitted |-> "none", startTime |-> 0,
                     thrown |-> Thrown(op, CircuitOpenMessage),
                     reply |-> HandlerReply(op, Rejected(op),
                                   Thrown(op, CircuitOpenMessage)) ])
            /\ lastFailureTime' = now
            /\ UNCHANGED circuitState
       ELSE /\ call' = [call EXCEPT ![c] =
                   [IdleCall EXCEPT !.op = op, !.pc = "backend",
                                    !.admitted = checkCircuit.state]]
            /\ circuitState' = checkCircuit.state
            /\ UNCHANGED lastFailureTime
    /\ UNCHANGED <<failureCount, streak, recovered>>
    /\ UNCHANGED <<ledger, req, resp, now, uuids, libVars>>

\* insert(), query(), similarity(), ping() from the call to the outbound
\* call: turned away by the open circuit, or let through; startTime is the
\* Date.now() the call keeps for the duration it logs
CallBeginAt(c, op, startTime) ==
    /\ Free(c)
    /\ IF checkCircuit.open
       THEN /\ call' = Returns(c,
                   [ op |-> op, pc |-> "done", result |-> Rejected(op),
                     admitted |-> "none", startTime |-> 0,
                     thrown |-> Thrown(op, CircuitOpenMessage),
                     reply |-> HandlerReply(op, Rejected(op),
                                   Thrown(op, CircuitOpenMessage)) ])
            /\ UNCHANGED circuitState
       ELSE /\ call' = [call EXCEPT ![c] =
                   [IdleCall EXCEPT !.op = op, !.pc = "backend",
                                    !.admitted = checkCircuit.state,
                                    !.startTime = startTime]]
            /\ circuitState' = checkCircuit.state
    /\ UNCHANGED <<failureCount, lastFailureTime, streak, recovered>>
    /\ UNCHANGED <<ledger, req, resp, now, uuids, libVars>>

\* a call of which the start time is not kept: it only feeds the log
CallBegin(c, op) == CallBeginAt(c, op, 0)

\* a call that keeps its start time
TimedCallBegin(c, op) == CallBeginAt(c, op, now)

\* a client of which the health check keeps out of the breaker: what ping()
\* finds is not recorded
CallEndPingUnrecorded(c, ok) ==
    /\ call[c].pc = "backend"
    /\ LET after == IF call[c].op = "ping"
                    THEN [ state |-> circuitState, count |-> failureCount,
                           last |-> lastFailureTime ]
                    ELSE IF ok THEN recordSuccess ELSE recordFailure
       IN  /\ circuitState' = after.state
           /\ failureCount' = after.count
           /\ lastFailureTime' = after.last
    /\ \E message \in IF ok THEN {<<>>} ELSE BackendMessages :
         LET op == call[c].op
             result == IF ok THEN Succeeded(op) ELSE Failed(op)
         IN  call' = Returns(c, [call[c] EXCEPT
                         !.pc = "done",
                         !.startTime = 0,
                         !.result = result,
                         !.thrown = Thrown(op, message),
                         !.reply = HandlerReply(op, result,
                                       Thrown(op, message))])
    /\ streak' = IF ok THEN 0 ELSE Min(streak + 1, threshold)
    /\ UNCHANGED <<ledger, req, resp, now, uuids, recovered, libVars>>

\* the outbound call returns (ok) or throws: recordSuccess() and the result,
\* or recordFailure() and the error
CallEnd(c, ok) ==
    /\ call[c].pc = "backend"
    /\ LET after == IF ok THEN recordSuccess ELSE recordFailure
       IN  /\ circuitState' = after.state
           /\ failureCount' = after.count
           /\ lastFailureTime' = after.last
    /\ \E message \in IF ok THEN {<<>>} ELSE BackendMessages :
         LET op == call[c].op
             result == IF ok THEN Succeeded(op) ELSE Failed(op)
         IN  call' = Returns(c, [call[c] EXCEPT
                         !.pc = "done",
                         !.startTime = 0,
                         !.result = result,
                         !.thrown = Thrown(op, message),
                         !.reply = HandlerReply(op, result,
                                       Thrown(op, message))])
    /\ streak' = IF ok THEN 0 ELSE Min(streak + 1, threshold)
    /\ UNCHANGED <<ledger, req, resp, now, uuids, recovered, libVars>>

\* a clock step that moves an OPEN breaker to HALF_OPEN by itself once the
\* cool-down has elapsed, as a background timer would
ClientTickWithTimer ==
    /\ now < MaxClock
    /\ now' = now + 1
    /\ circuitState' = IF /\ circuitState = "OPEN"
                          /\ now' - lastFailureTime >= timeout
                       THEN "HALF_OPEN" ELSE circuitState
    /\ UNCHANGED <<ledger, req, resp, uuids, failureCount, lastFailureTime,
                   call, streak, recovered, libVars>>

\* the wall clock advances
ClientTick ==
    /\ now < MaxClock
    /\ now' = now + 1
    /\ UNCHANGED <<ledger, req, resp, uuids, clientVars, libVars>>

NextClient ==
    \/ \E c \in Calls, op \in Operations : CallBegin(c, op)
    \/ \E c \in Calls, ok \in BOOLEAN : CallEnd(c, ok)
    \/ ClientTick

SpecClient == Init /\ [][NextClient]_vars

\* the client with the start time of every call kept, so that the time its
\* outbound call takes can be held against this.timeout
NextTimeout ==
    \/ \E c \in Calls, op \in Operations : TimedCallBegin(c, op)
    \/ \E c \in Calls, ok \in BOOLEAN : CallEnd(c, ok)
    \/ ClientTick

SpecTimeout == Init /\ [][NextTimeout]_vars

\* RuvVector recovers: every outbound call that returns from now on succeeds
BackendRecovers ==
    /\ ~recovered
    /\ recovered' = TRUE
    /\ UNCHANGED <<ledger, req, resp, now, uuids, circuitState, failureCount,
                   lastFailureTime, call, streak, libVars>>

\* the outbound call of call c ends: it may throw until RuvVector has
\* recovered
CallReturns(c) == \E ok \in BOOLEAN : (recovered => ok) /\ CallEnd(c, ok)

\* the calls made while RuvVector recovers: one of the operations that
\* throw, and the health check
RecoveryOperations == {"insert", "ping"}

NextRecovery ==
    \/ \E c \in Calls, op \in RecoveryOperations : CallBegin(c, op)
    \/ \E c \in Calls : CallReturns(c)
    \/ ClientTick
    \/ BackendRecovers

\* the clock runs and every outbound call ends
SpecRecovery ==
    /\ Init /\ [][NextRecovery]_vars
    /\ WF_vars(ClientTick)
    /\ \A c \in Calls : WF_vars(CallReturns(c))

\* ------------------------------------------------------------------------
\* Properties
\* ------------------------------------------------------------------------
Done(r, op) == req[r].op = op /\ req[r].pc = "done"

Success(r) == resp[r].status \in {200, 201}

RowOf(id) == CHOOSE x \in ledger : x.execution_id = id

\* C1: an accept that arrives with an idempotency key under which a record
\* is already stored, and whose ledger lookup works, answers 200 with the
\* execution_id and authority_signature of that record (the ones the first
\* call was answered with), mints nothing and stores nothing, whatever its
\* other fields are.
C1_ReplayReturnsStoredRecord ==
    \A r \in Reqs :
        (Done(r, "accept") /\ req[r].seen # NoId /\ req[r].error = "none") =>
            /\ resp[r].status = 200
            /\ resp[r].execution_id = req[r].seen
            /\ resp[r].authority_signature = RowOf(req[r].seen).authority_signature
            /\ \A q \in Reqs :
                 (Done(q, "accept") /\ Success(q) /\
                  resp[q].execution_id = req[r].seen) =>
                     resp[q].authority_signature = resp[r].authority_signature
            /\ req[r].executionId = NoId
            /\ Cardinality({x \in ledger :
                   x.idempotency_key = req[r].body.idempotency_key}) = 1

\* a replay has been answered whose payload differs from the stored one, at
\* a later clock reading than the first call
C1_Witness ==
    \E r \in Reqs :
        /\ Done(r, "accept") /\ req[r].seen # NoId /\ resp[r].status = 200
        /\ RowOf(req[r].seen).caller_id # req[r].body.caller_id
        /\ RowOf(req[r].seen).created_at # now

\* C2 (as claimed): two accepts with the same idempotency key that both ran
\* their lookup before either inserted (both minted) and met no database
\* outage both end with a success response carrying the same execution_id.
C2_ConcurrentSameKeyBothSucceed ==
    \A r1, r2 \in Reqs :
        ( /\ r1 # r2
          /\ Done(r1, "accept") /\ Done(r2, "accept")
          /\ Truthy(req[r1].body.idempotency_key)
          /\ req[r1].body.idempotency_key = req[r2].body.idempotency_key
          /\ req[r1].executionId # NoId /\ req[r2].executionId # NoId
          /\ req[r1].error # "db_unavailable"
          /\ req[r2].error # "db_unavailable" ) =>
            /\ Success(r1) /\ Success(r2)
            /\ resp[r1].execution_id = resp[r2].execution_id

\* C3: the ledger holds at most one record per non-null idempotency key.
C3_OneRecordPerIdempotencyKey ==
    \A x, y \in ledger :
        (x.idempotency_key # Null /\ x.idempotency_key = y.idempotency_key) =>
            x = y

\* two accepts raced with one key: one stored its record, the other's INSERT
\* hit the unique index
C3_Witness ==
    \E r1, r2 \in Reqs :
        /\ Done(r1, "accept") /\ resp[r1].status = 201
        /\ Done(r2, "accept") /\ req[r2].error = "unique_violation"
        /\ req[r1].body.idempotency_key = req[r2].body.idempotency_key

\* C4: an accept (either route) one of whose ledger operations failed answers
\* 500 internal_error without execution_id and without authority_signature,
\* and the ledger has no record for the id the request minted.
C4_FailClosed ==
    \A r \in Reqs :
        ( /\ Done(r, "accept") \/ Done(r, "simulate")
          /\ req[r].error \in {"db_unavailable", "unique_violation"} ) =>
            /\ resp[r].status = 500
            /\ resp[r].error = "internal_error"
            /\ resp[r].execution_id = NoId
            /\ resp[r].authority_signature = NoSig
            /\ \A x \in ledger : x.execution_id # req[r].executionId

\* an INSERT failed after the request had minted its id, while the ledger
\* holds other records
C4_Witness ==
    \E r \in Reqs :
        /\ Done(r, "accept") /\ req[r].error = "db_unavailable"
        /\ req[r].executionId # NoId
        /\ ledger # {}

\* C5: every execution_id disclosed in a 200 or 201 accept response (either
\* route) has a record in the ledger.
C5_DisclosedIdIsRecorded ==
    \A r \in Reqs :
        ( /\ req[r].op \in {"accept", "simulate"}
          /\ Success(r) ) =>
            \E x \in ledger : x.execution_id = resp[r].execution_id

\* ids have been disclosed by a fresh mint, by a replay and by the
\* authority-mint route
C5_Witness ==
    /\ \E r \in Reqs : req[r].op = "accept" /\ resp[r].status = 201
    /\ \E r \in Reqs : req[r].op = "simulate" /\ resp[r].status = 200

\* C6 (as claimed): every record's authority_signature is the signature of
\* its execution_id and created_at under the authority's secret.
C6_StoredSignatureRecomputable ==
    \A x \in ledger :
        x.authority_signature \in
            { signExecution(x.execution_id, JsonCreatedAt(x), hmacSecret),
              signExecution(x.execution_id, ReadCreatedAt(x), hmacSecret) }

\* C7 (as claimed): a validate that arrives after the accept of an execution
\* and carries the execution_id and authority_signature of the accept
\* response answers 200 with valid = true and reason = null.
C7_AcceptThenValidate ==
    \A v, a \in Reqs :
        ( /\ Done(v, "validate") /\ req[v].error = "none"
          /\ req[v].seen # NoId
          /\ Done(a, "accept") /\ Success(a)
          /\ req[v].body.execution_id = resp[a].execution_id
          /\ req[v].body.authority_signature = resp[a].authority_signature ) =>
            /\ resp[v].status = 200
            /\ resp[v].valid = "true"
            /\ resp[v].reason = Null

\* the signature the authority takes for the correct one of a record: the
\* one validate answers valid = true for
CorrectSignature(x) ==
    signExecution(x.execution_id, ReadCreatedAt(x), hmacSecret)

\* C8 (as claimed): for a stored execution_id, a validate whose signature
\* differs from the correct one in exactly one character answers 200 with
\* valid = false and reason = signature_mismatch.
C8_AlteredSignatureRejected ==
    \A v \in Reqs :
        ( /\ Done(v, "validate") /\ req[v].error = "none"
          /\ req[v].seen # NoId
          /\ Len(req[v].body.authority_signature) =
                Len(CorrectSignature(RowOf(req[v].seen)))
          /\ Distance(req[v].body.authority_signature,
                      CorrectSignature(RowOf(req[v].seen))) = 1 ) =>
            /\ resp[v].status = 200
            /\ resp[v].valid = "false"
            /\ resp[v].reason = "signature_mismatch"

\* a well-formed validate on an id that has no record
NeverMinted(v) ==
    /\ Done(v, "validate") /\ req[v].error # "ZodError"
    /\ SelectByExecutionId(ledger, req[v].body.execution_id) = {}

\* C9 (as claimed): validate on a never-minted id always answers
\* {valid: false, reason: execution_not_found} with a 2xx status.
C9_NeverMintedAlwaysNotFound ==
    \A v \in Reqs :
        NeverMinted(v) =>
            /\ resp[v].status \in 200..299
            /\ resp[v].valid = "false"
            /\ resp[v].reason = "execution_not_found"

\* C9 (amended): validate on a never-minted id answers 200
\* {valid: false, reason: execution_not_found} whenever its ledger lookup
\* succeeds and never 404; when the lookup fails it answers 500
\* internal_error.
C9_NeverMintedNotFoundUnlessLookupFails ==
    \A v \in Reqs :
        NeverMinted(v) =>
            /\ resp[v].status # 404
            /\ req[v].error = "none" =>
                 /\ resp[v].status = 200
                 /\ resp[v].valid = "false"
                 /\ resp[v].reason = "execution_not_found"
            /\ req[v].error # "none" =>
                 /\ resp[v].status = 500
                 /\ resp[v].error = "internal_error"

\* exec-0, which no accept ever mints, has been validated with a working
\* lookup and with a failing one
C9_Witness ==
    /\ \E v \in Reqs : /\ NeverMinted(v) /\ resp[v].status = 200
                       /\ req[v].body.execution_id = mintExecutionId(0)
    /\ \E v \in Reqs : NeverMinted(v) /\ resp[v].status = 500

\* C10: a validate whose lookup failed answers 5xx internal_error without a
\* `valid` field; a response with valid = false comes only from a lookup
\* that succeeded.
C10_LookupFailureIsNotInvalid ==
    \A v \in Reqs :
        Done(v, "validate") =>
            /\ req[v].error = "db_unavailable" =>
                 /\ resp[v].status \in 500..599
                 /\ resp[v].error = "internal_error"
                 /\ resp[v].valid = Absent
                 /\ resp[v].reason = Absent
            /\ resp[v].valid = "false" =>
                 /\ req[v].error = "none"
                 /\ resp[v].status = 200

\* the lookup of one validate failed, and another validate was answered
\* valid = false
C10_Witness ==
    /\ \E v \in Reqs : Done(v, "validate") /\ req[v].error = "db_unavailable"
    /\ \E v \in Reqs : Done(v, "validate") /\ resp[v].valid = "false"

\* a step of a validate request: its call, or the return of its lookup
ValidateStep(r) == req'[r].op = "validate" /\ req'[r] # req[r]

\* C11: no step of a validate request changes the ledger, whatever the
\* request is answered with (valid, signature_mismatch, execution_not_found,
\* 400 or 500).
C11_ValidateLeavesLedger ==
    [][(\E r \in Reqs : ValidateStep(r)) => ledger' = ledger]_vars

\* a validate has been answered valid = true for a record, and the record is
\* in the ledger
C11_Witness ==
    \E v \in Reqs :
        /\ Done(v, "validate") /\ resp[v].valid = "true"
        /\ SelectByExecutionId(ledger, req[v].body.execution_id) # {}

\* C12: the ledger is append-only: whatever step of an accept, simulate,
\* get, list or validate request is taken, every record of the ledger is in
\* the ledger afterwards, unchanged; the set of records only grows.
C12_AppendOnly == [][ledger \subseteq ledger']_vars

\* a list has returned a record at a later clock reading than the record's
\* creation, and the ledger holds the record as returned
C12_Witness ==
    \E r \in Reqs :
        /\ Done(r, "list") /\ resp[r].status = 200 /\ resp[r].data # <<>>
        /\ resp[r].data[1] \in ledger
        /\ resp[r].data[1].created_at < now

\* an accept of either route that carries no idempotency_key and succeeded
KeylessSuccess(r) ==
    /\ req[r].op \in {"accept", "simulate"} /\ req[r].pc = "done"
    /\ Success(r)
    /\ req[r].body.idempotency_key = Absent

\* C13: an accept without idempotency_key that succeeds returns an id of the
\* form exec-<uuid> that no other accept, of either route, has minted or been
\* answered with, and the ledger holds exactly one record with that id.
C13_FreshIdWithoutKey ==
    \A r \in Reqs :
        KeylessSuccess(r) =>
            /\ resp[r].execution_id = mintExecutionId(resp[r].execution_id[2])
            /\ resp[r].execution_id[2] \in 1..uuids
            /\ \A q \in Reqs \ {r} :
                 req[q].op \in {"accept", "simulate"} =>
                     /\ req[q].executionId # resp[r].execution_id
                     /\ resp[q].execution_id # resp[r].execution_id
            /\ Cardinality(SelectByExecutionId(ledger, resp[r].execution_id)) = 1

\* two accepts without a key, one on each route, have succeeded
C13_Witness ==
    \E r1, r2 \in Reqs :
        /\ KeylessSuccess(r1) /\ req[r1].op = "accept"
        /\ KeylessSuccess(r2) /\ req[r2].op = "simulate"

\* C14 (as claimed): a POST /v1/simulations that arrives after a call with the
\* same idempotency_key was answered, and whose ledger operations work,
\* answers 200 with the execution_id of that first call, mints nothing and
\* inserts nothing.
C14_SimulationReplay ==
    \A r \in Reqs :
        ( /\ Done(r, "simulate") /\ req[r].seen # NoId
          /\ req[r].error = "none" ) =>
            /\ resp[r].status = 200
            /\ resp[r].execution_id = req[r].seen
            /\ req[r].executionId = NoId
            /\ Cardinality({x \in ledger :
                   x.execution_id \in {req[r].seen, req[r].executionId}}) = 1

\* C15: an accept whose body fails validation is answered in the step in
\* which it is called, before any ledger query: 400 validation_error with
\* the failing fields as details, no execution_id; the step mints nothing
\* and leaves the ledger as it was.
C15_InvalidAcceptRejected ==
    [][\A r \in Reqs :
         ( /\ req[r].pc = "idle" /\ req'[r].op = "accept"
           /\ ~acceptExecutionSchema(req'[r].body) ) =>
             /\ req'[r].pc = "done"
             /\ resp'[r].status = 400
             /\ resp'[r].error = "validation_error"
             /\ resp'[r].details = acceptExecutionIssues(req'[r].body)
             /\ resp'[r].details # {}
             /\ resp'[r].execution_id = NoId
             /\ req'[r].executionId = NoId
             /\ uuids' = uuids
             /\ ledger' = ledger]_vars

\* an accept with two failing fields has been rejected that carried the key
\* of a stored record
C15_Witness ==
    \E r \in Reqs :
        /\ req[r].op = "accept" /\ resp[r].status = 400
        /\ Cardinality(resp[r].details) = 2
        /\ SelectByIdempotencyKey(ledger, req[r].body.idempotency_key) # {}

C17_OpensOnConsecutiveFailures ==
    [][circuitState = "CLOSED" =>
          (circuitState' = "OPEN" <=> streak' >= threshold)]_vars

\* a call that is answered by the three operations that throw
Guarded(op) == op \in {"insert", "query", "similarity"}

\* call c is made in this step
Begins(c) ==
    call[c].pc # "backend" /\ call'[c].pc # "idle" /\ call'[c] # call[c]

\* the outbound call of call c returns or throws in this step
Ends(c) == call[c].pc = "backend" /\ call'[c].pc = "done"

\* C18: an insert, query or similarity call made while the breaker is OPEN
\* and less than the cool-down has passed since the last recorded failure is
\* turned away with the breaker-open error and never reaches the backend, and
\* it leaves the breaker OPEN; so is a call made within the cool-down after
\* threshold consecutive failures.
C18_OpenRejectsWithoutAttempt ==
    [][\A c \in Calls :
         ( /\ Begins(c) /\ Guarded(call'[c].op)
           /\ now - lastFailureTime < timeout
           /\ circuitState = "OPEN" \/ streak >= threshold ) =>
             /\ call'[c].pc = "done"
             /\ call'[c].result = "circuit_open"
             /\ call'[c].admitted = "none"
             /\ circuitState' = "OPEN"]_vars

\* a call has been turned away right after the failure that opened the
\* breaker, threshold failures in a row having been recorded
C18_Witness ==
    \E c \in Calls :
        /\ call[c].result = "circuit_open"
        /\ circuitState = "OPEN" /\ streak = threshold
        /\ now = lastFailureTime

\* the calls in flight that were let through as a trial of the half-open
\* breaker
Trials == {c \in Calls : call[c].pc = "backend" /\ call[c].admitted = "HALF_OPEN"}

C20_TrialDecides ==
    [][\A c \in Calls :
         (Ends(c) /\ circuitState = "HALF_OPEN") =>
             /\ call'[c].result \in {"ok", "true"} =>
                  circuitState' = "CLOSED" /\ failureCount' = 0
             /\ call'[c].result \in {"error", "false"} =>
                  /\ circuitState' = "OPEN"
                  /\ lastFailureTime' = now
                  /\ ~CoolDownElapsed']_vars

\* a trial call has just failed and the breaker is open again, its cool-down
\* running from the time of that failure
C20_Witness ==
    /\ circuitState = "OPEN"
    /\ \E c \in Calls : /\ call[c].admitted = "HALF_OPEN"
                        /\ call[c].result = "error"
    /\ lastFailureTime = now /\ now >= timeout
    /\ failureCount > threshold

\* C21: the breaker leaves OPEN only in the step in which a call (insert,
\* query, similarity or ping) is made, only into HALF_OPEN, and only if at
\* least the cool-down has elapsed since the last recorded failure; a step
\* of the clock alone leaves an OPEN breaker OPEN, however late it is.
C21_LeavesOpenLazily ==
    [][circuitState = "OPEN" =>
          /\ circuitState' # "OPEN" =>
               /\ \E c \in Calls : Begins(c) /\ call'[c].pc = "backend"
               /\ circuitState' = "HALF_OPEN"
               /\ CoolDownElapsed
          /\ now' # now => circuitState' = "OPEN"]_vars

\* a call has been let through as the trial of a breaker that stayed OPEN
\* beyond its cool-down until the call was made
C21_Witness ==
    /\ circuitState = "HALF_OPEN"
    /\ \E c \in Calls : call[c].pc = "backend" /\ call[c].admitted = "HALF_OPEN"
    /\ now - lastFailureTime > timeout

\* C22: a ping() made while the breaker is OPEN and its cool-down has not
\* elapsed returns false in the same step, throws nothing, never reaches the
\* backend and changes neither the state nor failureCount nor
\* lastFailureTime; readyHandler answers it with 503 'not ready' and no
\* error.
C22_PingOnOpenIsSoft ==
    [][\A c \in Calls :
         ( /\ Begins(c) /\ call'[c].op = "ping"
           /\ circuitState = "OPEN" /\ ~CoolDownElapsed ) =>
             /\ call'[c].pc = "done"
             /\ call'[c].result = "false"
             /\ call'[c].thrown = <<>>
             /\ call'[c].admitted = "none"
             /\ circuitState' = circuitState
             /\ failureCount' = failureCount
             /\ lastFailureTime' = lastFailureTime
             /\ call'[c].reply =
                    [NoReply EXCEPT !.status = 503, !.ready = "not ready"]]_vars

\* the readiness probe has been answered 503 by a breaker that is OPEN inside
\* its cool-down, while another call is still in flight
C22_Witness ==
    \E c, d \in Calls :
        /\ call[c].op = "ping" /\ call[c].pc = "done"
        /\ call[c].admitted = "none" /\ call[c].reply.status = 503
        /\ circuitState = "OPEN" /\ ~CoolDownElapsed
        /\ call[d].pc = "backend"

\* C23: in ingestHandler, queryHandler and simulateHandler a call that the
\* open breaker turned away is answered 503 service_unavailable, and a call
\* that was let through to the backend and failed there is answered 502
\* upstream_error; neither is ever answered with the status of the other.
C23_RejectedIs503FailedIs502 ==
    \A c \in Calls :
        (call[c].pc = "done" /\ Guarded(call[c].op)) =>
            /\ call[c].result = "circuit_open" =>
                 /\ call[c].admitted = "none"
                 /\ call[c].reply.status = 503
                 /\ call[c].reply.error = "service_unavailable"
            /\ call[c].result = "error" =>
                 /\ call[c].admitted # "none"
                 /\ call[c].reply.status = 502
                 /\ call[c].reply.error = "upstream_error"

\* the failure that opened the breaker has itself been answered 502
C23_Witness ==
    \E c \in Calls :
        /\ Guarded(call[c].op) /\ call[c].result = "error"
        /\ call[c].reply.status = 502
        /\ circuitState = "OPEN" /\ lastFailureTime = now
        /\ failureCount = threshold

\* C30: with threshold >= 1, whatever calls are made and however their
\* outbound calls interleave, the breaker state is CLOSED, OPEN or HALF_OPEN,
\* and failureCount < threshold while it is CLOSED.
C30_BreakerStateValid ==
    /\ threshold >= 1
    /\ circuitState \in {"CLOSED", "OPEN", "HALF_OPEN"}
    /\ circuitState = "CLOSED" => failureCount < threshold

\* a trial has closed the breaker, and a call that was in flight beside it
\* has failed since: the breaker is CLOSED with a failure counted
C30_Witness ==
    /\ circuitState = "CLOSED" /\ failureCount = threshold - 1
    /\ lastFailureTime >= timeout
    /\ \E c \in Calls : call[c].result = "error" /\ call[c].admitted = "HALF_OPEN"

\* ------------------------------------------------------------------------
\* Immutability guard (guardAgainstMutation, wrapWithImmutabilityGuard)
\* ------------------------------------------------------------------------
\* A statement is the sequence of its words; \s+ of a pattern is the gap
\* between two words, and the i flag makes the comparison fold case.

\* the keywords as the statements below write them in lower case
UpperCase ==
    [ w \in {"update", "delete", "from", "truncate", "table", "drop",
             "alter", "insert", "into", "select", "set", "column"} |->
        CASE w = "update" -> "UPDATE" [] w = "delete" -> "DELETE"
          [] w = "from" -> "FROM" [] w = "truncate" -> "TRUNCATE"
          [] w = "table" -> "TABLE" [] w = "drop" -> "DROP"
          [] w = "alter" -> "ALTER" [] w = "insert" -> "INSERT"
          [] w = "into" -> "INTO" [] w = "select" -> "SELECT"
          [] w = "set" -> "SET" [] w = "column" -> "COLUMN" ]

\* case folding of the i flag
Fold(w) == IF w \in DOMAIN UpperCase THEN UpperCase[w] ELSE w

\* the patterns, each as the words it requires in a row and, for .*DROP, the
\* word it requires somewhere after them
FORBIDDEN_MUTATION_PATTERNS ==
    { [words |-> <<"UPDATE", "learning_events">>, later |-> Absent],
      [words |-> <<"DELETE", "FROM", "learning_events">>, later |-> Absent],
      [words |-> <<"TRUNCATE", "learning_events">>, later |-> Absent],
      [words |-> <<"DROP", "TABLE", "learning_events">>, later |-> Absent],
      [words |-> <<"ALTER", "TABLE", "learning_events">>, later |-> "DROP"],
      [words |-> <<"UPDATE", "learning_decision_events">>, later |-> Absent],
      [words |-> <<"DELETE", "FROM", "learning_decision_events">>, later |-> Absent],
      [words |-> <<"TRUNCATE", "learning_decision_events">>, later |-> Absent],
      [words |-> <<"UPDATE", "approvals">>, later |-> Absent],
      [words |-> <<"DELETE", "FROM", "approvals">>, later |-> Absent],
      [words |-> <<"TRUNCATE", "approvals">>, later |-> Absent] }

\* pattern.test(query)
Test(pattern, query) ==
    LET n == Len(pattern.words)
    IN  \E i \in 1..(Len(query) - n + 1) :
            /\ \A k \in 1..n : Fold(query[i + k - 1]) = pattern.words[k]
            /\ pattern.later # Absent =>
                 \E j \in (i + n)..Len(query) : Fold(query[j]) = pattern.later

\* guardAgainstMutation(query): whether it throws
guardAgainstMutation(query) ==
    \E pattern \in FORBIDDEN_MUTATION_PATTERNS : Test(pattern, query)

\* the statements handed to the guard: every form on every table, keywords
\* in upper and in lower case
Tables ==
    {"executions", "learning_events", "learning_decision_events",
     "approvals", "decisions"}
MutationForms == {"update", "delete", "truncate", "truncate table", "drop"}
Forms == MutationForms \cup {"alter drop", "insert", "select"}

Statement(form, table, lower) ==
    LET words ==
          CASE form = "update" -> <<"update", table, "set">>
            [] form = "delete" -> <<"delete", "from", table>>
            [] form = "truncate" -> <<"truncate", table>>
            [] form = "truncate table" -> <<"truncate", "table", table>>
            [] form = "drop" -> <<"drop", "table", table>>
            [] form = "alter drop" ->
                 <<"alter", "table", table, "drop", "column">>
            [] form = "insert" -> <<"insert", "into", table>>
            [] form = "select" -> <<"select", "from", table>>
    IN  IF lower THEN words ELSE [k \in 1..Len(words) |-> Fold(words[k])]

\* guardAgainstMutation is called with a statement
GuardCall(query) ==
    /\ guard' = [ via |-> "guardAgainstMutation", query |-> query,
                  thrown |-> guardAgainstMutation(query), invoked |-> FALSE ]
    /\ UNCHANGED <<ledger, req, resp, now, uuids, clientVars, startup, authority,
                   payload>>

\* a function wrapped by wrapWithImmutabilityGuard is called with a
\* statement: the guard, then the original query function
WrappedCall(query) ==
    /\ guard' = [ via |-> "wrapWithImmutabilityGuard", query |-> query,
                  thrown |-> guardAgainstMutation(query),
                  invoked |-> ~guardAgainstMutation(query) ]
    /\ UNCHANGED <<ledger, req, resp, now, uuids, clientVars, startup, authority,
                   payload>>

NextGuard ==
    \/ \E f \in Forms, t \in Tables, lower \in BOOLEAN :
           GuardCall(Statement(f, t, lower))
    \/ \E f \in Forms, t \in Tables, lower \in BOOLEAN :
           WrappedCall(Statement(f, t, lower))

SpecGuard == Init /\ [][NextGuard]_vars

\* the append-only tables: the executions ledger and the decision-audit
\* tables
AppendOnlyTables ==
    {"executions", "learning_events", "learning_decision_events", "approvals"}

\* C24 (as claimed): every statement that updates, deletes, truncates or
\* drops an append-only table and is handed to guardAgainstMutation or to a
\* wrapped query function is rejected with an error, and the wrapped query
\* function is not invoked for it.
C24_MutationsRejected ==
    ( /\ guard.via # "none"
      /\ \E f \in MutationForms, t \in AppendOnlyTables, lower \in BOOLEAN :
             guard.query = Statement(f, t, lower) ) =>
        guard.thrown /\ ~guard.invoked

\* ------------------------------------------------------------------------
\* Startup check (verifyStorageHealth)
\* ------------------------------------------------------------------------
REQUIRED_TABLES == {"decisions", "approvals", "learning_weights", "learning_events"}

REQUIRED_INDEXES ==
    { "idx_decisions_created_at", "idx_decisions_objective",
      "idx_decisions_confidence", "idx_approvals_decision_id",
      "idx_approvals_created_at", "idx_learning_weights_source",
      "idx_learning_weights_target", "idx_learning_weights_weight",
      "idx_learning_events_agent_id", "idx_learning_events_decision_type",
      "idx_learning_events_created_at",
      "idx_learning_events_inputs_hash_unique" }

\* the indexes the migrations create on the tables above and on executions
MigratedIndexes == REQUIRED_INDEXES \cup {"idx_executions_idempotency_key"}

\* the backing stores the service may be started on: reachable or not, with
\* or without one of its tables and indexes, and with the rows that
\* information_schema.table_constraints holds for UNIQUE constraints of
\* learning_events (a constraint name is the sequence of its parts)
Stores ==
    [ connected : BOOLEAN,
      tables : {REQUIRED_TABLES, REQUIRED_TABLES \ {"learning_events"}},
      indexes : { MigratedIndexes,
                  MigratedIndexes \ {"idx_executions_idempotency_key"},
                  MigratedIndexes \ {"idx_learning_events_inputs_hash_unique"},
                  MigratedIndexes \ {"idx_decisions_created_at"} },
      constraints : { {}, {<<"learning_events", "agent_id", "key">>},
                      {<<"learning_events", "inputs_hash", "key">>} } ]

\* verifyStorageHealth is called: the four checks of Promise.all start
VerifyStorageHealthBegin(production, store) ==
    /\ startup.pc = "idle"
    /\ startup' = [IdleStartup EXCEPT
                     !.pc = "checking", !.production = production,
                     !.store = store,
                     !.pending = {"database", "tables", "indexes", "appendOnly"}]
    /\ UNCHANGED <<ledger, req, resp, now, uuids, clientVars, guard, authority,
                   payload>>

\* one of the four checks returns; dbUp is whether its query got through
Returned(check, dbUp) ==
    /\ startup.pc = "checking"
    /\ check \in startup.pending
    /\ dbUp => startup.store.connected

\* verifyDatabaseConnection: ping, false when it throws
VerifyDatabaseConnection(dbUp) ==
    /\ Returned("database", dbUp)
    /\ startup' = [startup EXCEPT !.pending = @ \ {"database"},
                                  !.connected = dbUp]
    /\ UNCHANGED <<ledger, req, resp, now, uuids, clientVars, guard, authority,
                   payload>>

\* verifyTables: the required tables that pg_tables does not list, all of
\* them when the query throws
VerifyTables(dbUp) ==
    /\ Returned("tables", dbUp)
    /\ startup' = [startup EXCEPT
                     !.pending = @ \ {"tables"},
                     !.tablesMissing = IF dbUp
                                       THEN REQUIRED_TABLES \ startup.store.tables
                                       ELSE REQUIRED_TABLES]
    /\ UNCHANGED <<ledger, req, resp, now, uuids, clientVars, guard, authority,
                   payload>>

\* verifyIndexes: the same for pg_indexes
VerifyIndexes(dbUp) ==
    /\ Returned("indexes", dbUp)
    /\ startup' = [startup EXCEPT
                     !.pending = @ \ {"indexes"},
                     !.indexesMissing = IF dbUp
                                        THEN REQUIRED_INDEXES \ startup.store.indexes
                                        ELSE REQUIRED_INDEXES]
    /\ UNCHANGED <<ledger, req, resp, now, uuids, clientVars, guard, authority,
                   payload>>

\* result.rows.some(r => r.constraint_name.includes('inputs_hash'))
hasUniqueConstraint(store) ==
    \E name \in store.constraints : Includes(name, <<"inputs_hash">>)

\* verifyAppendOnlyConstraints: false when the query throws
VerifyAppendOnlyConstraints(dbUp) ==
    /\ Returned("appendOnly", dbUp)
    /\ startup' = [startup EXCEPT
                     !.pending = @ \ {"appendOnly"},
                     !.appendOnlyOk = dbUp /\ hasUniqueConstraint(startup.store)]
    /\ UNCHANGED <<ledger, req, resp, now, uuids, clientVars, guard, authority,
                   payload>>

\* database.connected && tables.verified && indexes.verified
healthy ==
    /\ startup.connected
    /\ startup.tablesMissing = {}
    /\ startup.indexesMissing = {}

\* Promise.all has resolved: throw in production if unhealthy, else return
VerifyStorageHealthEnd ==
    /\ startup.pc = "checking" /\ startup.pending = {}
    /\ startup' = [startup EXCEPT
                     !.pc = "done",
                     !.outcome = IF ~healthy /\ startup.production
                                 THEN "thrown" ELSE "returned"]
    /\ UNCHANGED <<ledger, req, resp, now, uuids, clientVars, guard, authority,
                   payload>>

NextStartup ==
    \/ \E production \in BOOLEAN, store \in Stores :
           VerifyStorageHealthBegin(production, store)
    \/ \E dbUp \in BOOLEAN : VerifyDatabaseConnection(dbUp)
    \/ \E dbUp \in BOOLEAN : VerifyTables(dbUp)
    \/ \E dbUp \in BOOLEAN : VerifyIndexes(dbUp)
    \/ \E dbUp \in BOOLEAN : VerifyAppendOnlyConstraints(dbUp)
    \/ VerifyStorageHealthEnd

SpecStartup == Init /\ [][NextStartup]_vars

\* C25 (as claimed): in production mode verifyStorageHealth throws whenever
\* the unique constraint on inputs_hash, which verifyAppendOnlyConstraints
\* looks for, is missing from the backing store.
C25_RefusesToStartWithoutConstraint ==
    ( /\ startup.pc = "done" /\ startup.production
      /\ ~hasUniqueConstraint(startup.store) ) =>
        startup.outcome = "thrown"

\* ------------------------------------------------------------------------
\* The signing primitive on its own (signExecution, verifyExecutionSignature)
\* ------------------------------------------------------------------------
\* execution ids, timestamp strings (ISO strings and Date strings) and
\* secrets that the primitive is used with
SignedIds == {mintExecutionId(u) : u \in 1..3}
SignedTimestamps ==
    {ToISOString(t) : t \in 0..2}
    \cup {DateToString(0), DateToString(TicksPerSecond)}
Secrets == {hmacSecret, hmacSecret + 1, hmacSecret + 2}

\* signExecution(executionId, timestamp, secret)
Sign(executionId, timestamp, secret) ==
    /\ authority.pc = "idle"
    /\ authority' = [IdleAuthority EXCEPT
                       !.pc = "signed", !.executionId = executionId,
                       !.timestamp = timestamp, !.secret = secret,
                       !.signature = signExecution(executionId, timestamp, secret)]
    /\ UNCHANGED <<ledger, req, resp, now, uuids, clientVars, guard, startup,
                   payload>>

\* verifyExecutionSignature(executionId, timestamp, signature, secret) on
\* the signature made before
Verify(executionId, timestamp, secret) ==
    /\ authority.pc = "signed"
    /\ authority' = [authority EXCEPT
                       !.pc = "verified", !.verifyId = executionId,
                       !.verifyTimestamp = timestamp, !.verifySecret = secret,
                       !.result = verifyExecutionSignature(executionId,
                                      timestamp, authority.signature, secret)]
    /\ UNCHANGED <<ledger, req, resp, now, uuids, clientVars, guard, startup,
                   payload>>

NextAuthority ==
    \/ \E id \in SignedIds, ts \in SignedTimestamps, s \in Secrets :
           Sign(id, ts, s)
    \/ \E id \in SignedIds, ts \in SignedTimestamps, s \in Secrets :
           Verify(id, ts, s)

SpecAuthority == Init /\ [][NextAuthority]_vars

\* the inputs of the verify call that differ from those of the sign call
Replaced ==
    {f \in {"id", "ts", "secret"} :
        CASE f = "id" -> authority.verifyId # authority.executionId
          [] f = "ts" -> authority.verifyTimestamp # authority.timestamp
          [] f = "secret" -> authority.verifySecret # authority.secret}

\* C26: for the ids, timestamps and secrets above,
\* verifyExecutionSignature(id, ts, signExecution(id, ts, s), s) is true, and
\* it is false when exactly one of id, ts and s is another value in the
\* verify call.
C26_SignVerifyRoundTrip ==
    authority.pc = "verified" =>
        /\ Replaced = {} => authority.result
        /\ Cardinality(Replaced) = 1 => ~authority.result

\* a signature over the ISO string of an instant has been verified against
\* the Date string of the same instant, under the same id and secret
C26_Witness ==
    /\ authority.pc = "verified" /\ ~authority.result
    /\ Replaced = {"ts"}
    /\ authority.timestamp = ToISOString(0)
    /\ authority.verifyTimestamp = DateToString(0)

\* the records that correspond to request r: the one it minted and the one
\* its response names
RecordsOf(r) ==
    {x \in ledger : x.execution_id \in {req[r].executionId, resp[r].execution_id}}

PaginationTexts ==
    { NoText, <<>>, <<"0">>, <<"-", "5">>, <<"1", "0", "0", "0">>,
      <<"1", "0", "0", "1">>, <<"a", "b", "c">>, <<" ", "7", "x">> }

\* the queries that supply one of the two, both, or neither
PaginationQueries ==
    { [EmptyBody EXCEPT !.limit = t] : t \in PaginationTexts }
    \cup { [EmptyBody EXCEPT !.offset = t] : t \in PaginationTexts }
    \cup { [EmptyBody EXCEPT !.limit = <<"1">>, !.offset = <<"1">>] }

NextList ==
    \/ \E r \in Reqs : AcceptBegin(r, Payload1)
    \/ \E r \in Reqs, dbUp \in BOOLEAN : AcceptInsert(r, dbUp)
    \/ \E r \in Reqs, query \in PaginationQueries : ListBegin(r, query)
    \/ \E r \in Reqs, dbUp \in BOOLEAN : ListCount(r, dbUp)
    \/ \E r \in Reqs, dbUp \in BOOLEAN : ListPage(r, dbUp)

SpecList == Init /\ [][NextList]_vars

\* C29: whatever limit and offset are supplied, a list whose queries work is
\* answered 200 with 1 <= limit <= 1000 and offset >= 0, and with no more
\* records than limit; with neither supplied, limit is 50 and offset is 0.
C29_PaginationClamped ==
    \A r \in Reqs :
        (Done(r, "list") /\ req[r].error = "none") =>
            /\ resp[r].status = 200
            /\ resp[r].limit >= 1 /\ resp[r].limit <= 1000
            /\ resp[r].offset >= 0
            /\ Len(resp[r].data) <= resp[r].limit
            /\ (req[r].body.limit = NoText /\ req[r].body.offset = NoText) =>
                   resp[r].limit = 50 /\ resp[r].offset = 0

\* a list with limit=-5 has been answered with limit 1, and one with
\* limit=1001 with limit 1000
C29_Witness ==
    \E r1, r2 \in Reqs :
        /\ Done(r1, "list") /\ req[r1].body.limit = <<"-", "5">>
        /\ resp[r1].limit = 1
        /\ Done(r2, "list") /\ req[r2].body.limit = <<"1", "0", "0", "1">>
        /\ resp[r2].limit = 1000

\* ------------------------------------------------------------------------
\* The x-correlation-id header of the execution routes
\* ------------------------------------------------------------------------
\* inbound headers: both ids, x-request-id alone, neither, an empty
\* x-correlation-id beside an x-request-id, an empty x-request-id alone, and
\* an x-correlation-id that arrives as a list
InboundHeaders ==
    { [x_correlation_id |-> c, x_request_id |-> q] :
        <<c, q>> \in
          { <<<<"string", "corr-1">>, <<"string", "req-1">>>>,
            <<NoHeader, <<"string", "req-1">>>>,
            <<NoHeader, NoHeader>>,
            <<<<"string", "">>, <<"string", "req-1">>>>,
            <<NoHeader, <<"string", "">>>>,
            <<<<"array", "first-id", "second-id">>, NoHeader>> } }

\* request `body` sent with headers h
WithHeaders(body, h) ==
    [body EXCEPT !.x_correlation_id = h.x_correlation_id,
                 !.x_request_id = h.x_request_id]

\* the requests `bodies` under all the headers above
Correlated(bodies) == {WithHeaders(b, h) : b \in bodies, h \in InboundHeaders}

\* the four routes: accept and validate with a request that passes
\* validation and one that does not, get with an id that is stored or not
\* when it is looked up
NextCorrelation ==
    \/ \E r \in Reqs,
          body \in Correlated({Payload1, [Payload1 EXCEPT !.caller_id = Absent]}) :
           AcceptBegin(r, body)
    \/ \E r \in Reqs, dbUp \in BOOLEAN : AcceptInsert(r, dbUp)
    \/ \E r \in Reqs,
          body \in Correlated({EmptyBody,
                      [EmptyBody EXCEPT !.execution_id = mintExecutionId(1),
                                        !.authority_signature = <<"a", "b">>]}) :
           ValidateBegin(r, body)
    \/ \E r \in Reqs, dbUp \in BOOLEAN : ValidateLookup(r, dbUp)
    \/ \E r \in Reqs,
          request \in Correlated({[EmptyBody EXCEPT
                                     !.execution_id = mintExecutionId(1)]}) :
           GetBegin(r, request)
    \/ \E r \in Reqs, dbUp \in BOOLEAN : GetLookup(r, dbUp)
    \/ \E r \in Reqs, query \in Correlated({EmptyBody}) : ListBegin(r, query)
    \/ \E r \in Reqs, dbUp \in BOOLEAN : ListCount(r, dbUp)
    \/ \E r \in Reqs, dbUp \in BOOLEAN : ListPage(r, dbUp)

SpecCorrelation == Init /\ [][NextCorrelation]_vars

\* an answered request of the accept, get, list or validate handler
Answered(r) ==
    /\ req[r].op \in {"accept", "get", "list", "validate"}
    /\ req[r].pc = "done" /\ resp[r].status # 0

\* the value of a header: the string, or the first element of a list
HeaderValue(h) == <<"string", h[2]>>

\* C28 (as claimed): every response of the accept, get, list and validate
\* handlers carries as x-correlation-id the inbound x-correlation-id header
\* if the request has one, otherwise the inbound x-request-id header if it
\* has one, otherwise a generated uuid.
C28_CorrelationIdEchoed ==
    \A r \in Reqs :
        Answered(r) =>
            req[r].correlationId =
                IF req[r].body.x_correlation_id # NoHeader
                THEN HeaderValue(req[r].body.x_correlation_id)
                ELSE IF req[r].body.x_request_id # NoHeader
                THEN HeaderValue(req[r].body.x_request_id)
                ELSE generateCorrelationId(r)

\* C28 (amended): every response of the accept, get, list and validate
\* handlers, on success and on every error path, carries as x-correlation-id
\* the inbound x-correlation-id header if the request has one that is not
\* empty, otherwise the inbound x-request-id header if it has one (empty or
\* not), otherwise a uuid generated for this request alone.
C28_CorrelationIdEchoedUnlessEmpty ==
    \A r \in Reqs :
        Answered(r) =>
            /\ req[r].correlationId =
                 IF req[r].body.x_correlation_id \notin {NoHeader, <<"string", "">>}
                 THEN HeaderValue(req[r].body.x_correlation_id)
                 ELSE IF req[r].body.x_request_id # NoHeader
                 THEN HeaderValue(req[r].body.x_request_id)
                 ELSE generateCorrelationId(r)
            /\ \A q \in Reqs \ {r} :
                 req[r].correlationId[1] = "uuid" =>
                     req[q].correlationId # req[r].correlationId

\* a request with an empty x-correlation-id and an x-request-id has been
\* answered 500 under the x-request-id, and a request without either header
\* has been answered 400 under a uuid of its own
C28_Witness ==
    \E r1, r2 \in Reqs :
        /\ Answered(r1) /\ resp[r1].status = 500
        /\ req[r1].body.x_correlation_id = <<"string", "">>
        /\ req[r1].correlationId = <<"string", "req-1">>
        /\ Answered(r2) /\ resp[r2].status = 400
        /\ req[r2].correlationId = generateCorrelationId(r2)

\* the four edges along which the breaker state may change
BreakerEdges ==
    { <<"CLOSED", "OPEN">>, <<"OPEN", "HALF_OPEN">>,
      <<"HALF_OPEN", "CLOSED">>, <<"HALF_OPEN", "OPEN">> }

\* C31: every change of the breaker state goes along one of the four edges
\* CLOSED to OPEN, OPEN to HALF_OPEN, HALF_OPEN to CLOSED and HALF_OPEN to
\* OPEN; in particular never from OPEN straight to CLOSED and never from
\* CLOSED to HALF_OPEN.
C31_OnlyFourEdges ==
    [][circuitState' # circuitState =>
          <<circuitState, circuitState'>> \in BreakerEdges]_vars

\* the breaker has gone round: it opened, a trial failed and opened it again
\* at or after the first cool-down, and a later trial has closed it
C31_Witness ==
    /\ circuitState = "CLOSED" /\ failureCount = 0
    /\ lastFailureTime >= timeout
    /\ now - lastFailureTime >= timeout
    /\ \E c \in Calls : /\ call[c].pc = "done"
                        /\ call[c].admitted = "HALF_OPEN"
                        /\ call[c].result \in {"ok", "true"}

\* call c is turned away in this step, the backend not reached
TurnedAway(c) ==
    Begins(c) /\ call'[c].pc = "done" /\ call'[c].admitted = "none"

\* C32: a call that is turned away because the breaker is OPEN changes
\* neither failureCount nor lastFailureTime nor the state of the breaker, so
\* the cool-down still runs from the last failure recorded, however many
\* calls are turned away in it.
C32_RejectionLeavesBreaker ==
    [][\A c \in Calls :
         TurnedAway(c) =>
             /\ circuitState = "OPEN"
             /\ circuitState' = circuitState
             /\ failureCount' = failureCount
             /\ lastFailureTime' = lastFailureTime
             /\ (now' - lastFailureTime') = (now - lastFailureTime)]_vars

\* a call was turned away inside the cool-down, and the trial has been let
\* through exactly one cool-down after the last failure recorded
C32_Witness ==
    \E c, d \in Calls :
        /\ call[c].pc = "done" /\ call[c].result = "circuit_open"
        /\ call[d].pc = "backend" /\ call[d].admitted = "HALF_OPEN"
        /\ now - lastFailureTime = timeout

\* a call is made when the cool-down has elapsed
ArrivesAfterCoolDown ==
    /\ CoolDownElapsed
    /\ \E c \in Calls, op \in RecoveryOperations : CallBegin(c, op)

\* C33: if calls keep arriving after the cool-down has elapsed, then from
\* any state in which the breaker is OPEN and RuvVector has recovered, so
\* that every outbound call succeeds from then on, the breaker eventually is
\* CLOSED with failureCount = 0 and stays so for ever.
C33_Recovery ==
    []<><<ArrivesAfterCoolDown>>_vars =>
        ((circuitState = "OPEN" /\ recovered) ~>
            [](circuitState = "CLOSED" /\ failureCount = 0))

\* RuvVector recovered while the breaker was OPEN, and the trial made after
\* the cool-down has closed the breaker
C33_Witness ==
    /\ recovered
    /\ circuitState = "CLOSED" /\ failureCount = 0
    /\ now - lastFailureTime >= timeout
    /\ \E c \in Calls : /\ call[c].pc = "done"
                        /\ call[c].admitted = "HALF_OPEN"
                        /\ call[c].result \in {"ok", "true"}

\* C34: insert, query, similarity and ping all run the same sequence on the
\* one breaker of the client. Whichever of the four a call is: it is turned
\* away exactly when the breaker is OPEN inside its cool-down, and otherwise
\* reaches the backend, as the trial if the cool-down of an OPEN breaker has
\* elapsed; when its outbound call throws, failureCount grows by one,
\* lastFailureTime becomes the current time and the breaker opens if it was
\* HALF_OPEN or the count has reached threshold; when it returns while the
\* breaker is HALF_OPEN, the breaker closes and failureCount becomes 0.
C34_SameSequenceForAll ==
    [][\A c \in Calls, op \in Operations :
         /\ (Begins(c) /\ call'[c].op = op) =>
              /\ TurnedAway(c) <=> (circuitState = "OPEN" /\ ~CoolDownElapsed)
              /\ ~TurnedAway(c) =>
                   /\ call'[c].pc = "backend"
                   /\ circuitState' = IF circuitState = "OPEN" THEN "HALF_OPEN"
                                      ELSE circuitState
         /\ (Ends(c) /\ call[c].op = op) =>
              /\ call'[c].result = Failed(op) =>
                   /\ failureCount' = failureCount + 1
                   /\ lastFailureTime' = now
                   /\ ( \/ circuitState = "HALF_OPEN"
                        \/ failureCount + 1 >= threshold ) =>
                          circuitState' = "OPEN"
              /\ (call'[c].result = Succeeded(op) /\ circuitState = "HALF_OPEN") =>
                   /\ circuitState' = "CLOSED"
                   /\ failureCount' = 0]_vars

\* a ping that was let through while the breaker was CLOSED has failed and,
\* as the failure that reached threshold, has opened it for the call that
\* is in flight beside it
C34_Witness ==
    \E c, d \in Calls :
        /\ call[c].pc = "done" /\ call[c].op = "ping"
        /\ call[c].admitted = "CLOSED" /\ call[c].result = "false"
        /\ circuitState = "OPEN" /\ failureCount = threshold
        /\ lastFailureTime = now
        /\ call[d].pc = "backend" /\ call[d].op # "ping"

\* the outbound call of call c has taken longer than the timeout of the
\* client
TimedOut(c) == call[c].pc = "backend" /\ now - call[c].startTime > requestTimeout

\* C35 (as claimed): when the outbound call of a call ends after more than
\* the timeout of the client, the breaker records a failure: failureCount
\* grows by one and lastFailureTime becomes the current time, as for a call
\* that threw.
C35_TimeoutCountsAsFailure ==
    [][\A c \in Calls :
         (TimedOut(c) /\ Ends(c)) =>
             /\ failureCount' = failureCount + 1
             /\ lastFailureTime' = now]_vars

\* ------------------------------------------------------------------------
\* Payload normalisation (normalizePayload)
\* ------------------------------------------------------------------------
\* A body is a record of its fields; a key that is not in the body holds
\* Absent (undefined), a key that is dropped holds Absent afterwards.

\* the names under which the CLI may send the intent, besides
\* intent_description
Aliases == {"intent", "scenario", "description"}

\* a ?? b
NullishOr(a, b) == IF a \in {Absent, Null} THEN b ELSE a

\* a normalisation that looks at scenario before intent
normalizePayloadScenarioFirst(body) ==
    IF Truthy(body.intent_description) /\ body.intent_description # Null
    THEN body
    ELSE LET intentValue ==
                 NullishOr(body.scenario, NullishOr(body.intent, body.description))
         IN  IF intentValue # Absent
             THEN [body EXCEPT !.intent = Absent, !.scenario = Absent,
                               !.description = Absent,
                               !.intent_description = intentValue]
             ELSE body

\* normalizePayload(body)
normalizePayload(body) ==
    IF Truthy(body.intent_description) /\ body.intent_description # Null
    THEN body
    ELSE LET intentValue ==
                 NullishOr(body.intent, NullishOr(body.scenario, body.description))
         IN  IF intentValue # Absent
             THEN [body EXCEPT !.intent = Absent, !.scenario = Absent,
                               !.description = Absent,
                               !.intent_description = intentValue]
             ELSE body

\* the bodies handed to normalizePayload: every field missing, null, empty or
\* a text of its own
Texts ==
    [ intent_description |-> "canonical value", intent |-> "from intent",
      scenario |-> "from scenario", description |-> "from desc",
      caller_id |-> "agentics-cli", org_id |-> "org-1" ]
FieldValues(f) ==
    IF f \in Aliases \cup {"intent_description"}
    THEN {Absent, Null, "", Texts[f]}
    ELSE {Absent, Texts[f]}
CliBodies ==
    { b \in [DOMAIN NoFields -> {Absent, Null, ""} \cup
                                {Texts[f] : f \in DOMAIN NoFields}] :
        \A f \in DOMAIN NoFields : b[f] \in FieldValues(f) }

\* normalizePayload(req.body || {}) at the head of acceptSimulationHandler
Normalize(body) ==
    /\ payload.pc = "idle"
    /\ payload' = [ pc |-> "done", body |-> body,
                    normalized |-> normalizePayload(body) ]
    /\ UNCHANGED <<ledger, req, resp, now, uuids, clientVars, guard, startup,
                   authority>>

NextNormalize == \E body \in CliBodies : Normalize(body)

SpecNormalize == Init /\ [][NextNormalize]_vars

\* the names of the intent in the order of their priority
IntentNames == <<"intent_description", "intent", "scenario", "description">>

\* the first of the names of the intent under which body has a field
\* (0: none) when `has` tells whether a value counts as a field
FirstName(body, has(_)) ==
    IF \E i \in 1..4 : has(body[IntentNames[i]])
    THEN CHOOSE i \in 1..4 :
             /\ has(body[IntentNames[i]])
             /\ \A j \in 1..(i - 1) : ~has(body[IntentNames[j]])
    ELSE 0

\* a field is present: its key is in the body
IsPresent(v) == v # Absent

\* C36 (as claimed): normalizePayload takes intent_description from the
\* first field present in the order intent_description, intent, scenario,
\* description; it drops intent, scenario and description when it maps one
\* of them, and it leaves every other field unchanged.
C36_FirstPresentField ==
    payload.pc = "done" =>
        LET body == payload.body
            normalized == payload.normalized
            first == FirstName(body, IsPresent)
        IN  /\ first > 0 =>
                 normalized.intent_description = body[IntentNames[first]]
            /\ first > 1 => \A f \in Aliases : normalized[f] = Absent
            /\ normalized.caller_id = body.caller_id
            /\ normalized.org_id = body.org_id

\* a field holds a value: it is neither missing nor null
HasValue(v) == v \notin {Absent, Null}

\* C36 (amended): normalizePayload returns the body as it is when
\* intent_description is a non-empty string; otherwise it takes
\* intent_description from the first of intent, scenario and description
\* that is neither missing nor null, or from a null description when there
\* is none, and then drops intent, scenario and description; when there is
\* nothing to take, the body is returned as it is. Every other field is
\* left unchanged.
C36_FirstFieldWithValue ==
    payload.pc = "done" =>
        LET body == payload.body
            normalized == payload.normalized
            kept == [body EXCEPT !.intent_description = Absent]
            first == FirstName(kept, HasValue)
            mapped == \/ first > 0
                      \/ body.description = Null
        IN  /\ (Truthy(body.intent_description) /\ body.intent_description # Null)
                 => normalized = body
            /\ ~(Truthy(body.intent_description) /\ body.intent_description # Null) =>
                 /\ first > 0 =>
                      normalized.intent_description = body[IntentNames[first]]
                 /\ (first = 0 /\ mapped) =>
                      normalized.intent_description = Null
                 /\ mapped => \A f \in Aliases : normalized[f] = Absent
                 /\ ~mapped => normalized = body
            /\ normalized.caller_id = body.caller_id
            /\ normalized.org_id = body.org_id

\* an empty intent_description has given way to the scenario, a null intent
\* was passed over, and the caller and the organisation are still there
C36_Witness ==
    /\ payload.pc = "done"
    /\ payload.body.intent_description = ""
    /\ payload.body.intent = Null
    /\ payload.body.scenario = "from scenario"
    /\ payload.body.description = "from desc"
    /\ payload.body.caller_id = "agentics-cli"
    /\ payload.normalized.intent_description = "from scenario"
    /\ payload.normalized.description = Absent
    /\ payload.normalized.caller_id = "agentics-cli"

\* C37: the root span of every record has no parent, and its span_id is the
\* root_span_id of the record (in a row, lineage.root_span_id is the span_id
\* of lineage.root_span and lineage.parent_span_id its parent); a
\* POST /v1/simulations that succeeds answers with that same id as
\* parent_span_id, and a POST /v1/executions/accept that mints stores the
\* span id it drew.
C37_OneRootSpanId ==
    /\ \A x \in ledger :
          /\ x.lineage.parent_span_id = Null
          /\ x.lineage.root_span_id = x.root_span_id
          /\ x.root_span_id > 0
    /\ \A r \in Reqs :
          /\ (Done(r, "simulate") /\ resp[r].status = 200) =>
                \E x \in ledger :
                    /\ x.execution_id = resp[r].execution_id
                    /\ x.root_span_id = resp[r].parent_span_id
                    /\ x.lineage.root_span_id = resp[r].parent_span_id
          /\ (Done(r, "accept") /\ resp[r].status = 201) =>
                \E x \in ledger :
                    /\ x.execution_id = resp[r].execution_id
                    /\ x.root_span_id = req[r].rootSpanId
                    /\ x.lineage.root_span_id = req[r].rootSpanId

\* a simulation and an execution have both been accepted, each with a root
\* span of its own
C37_Witness ==
    \E r1, r2 \in Reqs :
        /\ Done(r1, "simulate") /\ resp[r1].status = 200
        /\ Done(r2, "accept") /\ resp[r2].status = 201
        /\ resp[r1].parent_span_id > 0
        /\ req[r2].rootSpanId > 0
        /\ req[r2].rootSpanId # resp[r1].parent_span_id
        /\ Cardinality(ledger) = 2

\* ------------------------------------------------------------------------
\* verifyExecutionSignature on signatures that were never issued
\* ------------------------------------------------------------------------
\* the strings of the length of sig in which every character is that of sig,
\* its other case, or a character that is no hex digit
SameLength(sig) ==
    { s \in [1..Len(sig) -> {"g", "-"} \cup {sig[i] : i \in 1..Len(sig)}
                            \cup {ToUpper(sig[i]) : i \in 1..Len(sig)}] :
        \A i \in 1..Len(sig) : s[i] \in {sig[i], ToUpper(sig[i]), "g", "-"} }

\* the signatures handed to the verification of (id, ts, secret): of the
\* expected length, shorter (the empty one among them) and longer
GivenSignatures(id, ts, secret) ==
    LET sig == signExecution(id, ts, secret)
    IN  SameLength(sig)
        \cup { SubSeq(sig, 1, n) : n \in 0..(Len(sig) - 1) }
        \cup { sig \o <<"0">>, sig \o <<"0", "0">>, sig \o <<"g", "g">>,
               <<"n", "o", "t", "-", "h", "e", "x">> }

\* verifyExecutionSignature(executionId, timestamp, signature, secret) on a
\* signature from outside
VerifyGiven(executionId, timestamp, signature, secret) ==
    /\ authority.pc = "idle"
    /\ LET ended == verifyExecutionSignatureCall(executionId, timestamp,
                                                 signature, secret)
       IN  authority' = [IdleAuthority EXCEPT
                           !.pc = "verified",
                           !.signature = signature,
                           !.verifyId = executionId,
                           !.verifyTimestamp = timestamp,
                           !.verifySecret = secret,
                           !.result = ended.returned,
                           !.thrown = ended.thrown]
    /\ UNCHANGED <<ledger, req, resp, now, uuids, clientVars, guard, startup,
                   payload>>

NextMalformed ==
    \E id \in SignedIds, ts \in SignedTimestamps, s \in Secrets :
        \E signature \in GivenSignatures(id, ts, s) :
            VerifyGiven(id, ts, signature, s)

SpecMalformed == Init /\ [][NextMalformed]_vars

\* the signature that the verification of the last call expected
ExpectedSignature ==
    signExecution(authority.verifyId, authority.verifyTimestamp,
                  authority.verifySecret)

\* C38: verifyExecutionSignature never throws; it returns false for a
\* signature whose length is not that of the expected signature, and for a
\* signature of that length in which some character is no hex digit.
C38_MalformedIsFalse ==
    authority.pc = "verified" =>
        /\ authority.thrown = "none"
        /\ Len(authority.signature) # Len(ExpectedSignature) => ~authority.result
        /\ ( /\ Len(authority.signature) = Len(ExpectedSignature)
             /\ \E i \in 1..Len(authority.signature) :
                    ~IsHexChar(authority.signature[i]) ) => ~authority.result

\* a signature of the expected length whose last character alone is no hex
\* digit has been refused
C38_Witness ==
    /\ authority.pc = "verified" /\ ~authority.result
    /\ authority.thrown = "none"
    /\ Len(authority.signature) = Len(ExpectedSignature)
    /\ \A i \in 1..(Len(ExpectedSignature) - 1) :
           authority.signature[i] = ExpectedSignature[i]
    /\ ~IsHexChar(authority.signature[Len(ExpectedSignature)])

\* ------------------------------------------------------------------------
\* POST /v1/executions/accept with and without an idempotency key
\* ------------------------------------------------------------------------
\* one payload with a key, with the empty string as its key, and with none
KeyBodies ==
    { [Payload1 EXCEPT !.idempotency_key = k] : k \in {"key-1", "", Absent} }

NextKeys ==
    \/ \E r \in Reqs, body \in KeyBodies : AcceptBegin(r, body)
    \/ \E r \in Reqs, dbUp \in BOOLEAN : AcceptLookup(r, dbUp)
    \/ \E r \in Reqs, dbUp \in BOOLEAN : AcceptInsert(r, dbUp)
    \/ Tick

SpecKeys == Init /\ [][NextKeys]_vars

\* the accept requests that came with the empty string as idempotency_key
EmptyKeyed ==
    {r \in Reqs : req[r].op = "accept" /\ req[r].body.idempotency_key = ""}

\* C39: an accept whose idempotency_key is the empty string is handled as
\* one without a key: it makes no lookup by key and is never answered with a
\* replay, it mints an execution_id that no other request has, and the
\* record it stores has a null idempotency_key.
C39_EmptyKeyIsNoKey ==
    \A r \in EmptyKeyed :
        /\ req[r].pc \in {"insert", "done"}
        /\ req[r].executionId # NoId
        /\ \A q \in Reqs \ {r} : req[q].executionId # req[r].executionId
        /\ req[r].pc = "done" =>
             /\ resp[r].status \in {201, 500}
             /\ resp[r].status = 201 =>
                  \E x \in ledger :
                      /\ x.execution_id = resp[r].execution_id
                      /\ x.execution_id = req[r].executionId
                      /\ x.idempotency_key = Null

\* two accepts with the empty key have both minted: two records, each with
\* its own execution_id and a null key
C39_Witness ==
    \E r1, r2 \in EmptyKeyed :
        /\ r1 # r2
        /\ Done(r1, "accept") /\ resp[r1].status = 201
        /\ Done(r2, "accept") /\ resp[r2].status = 201
        /\ resp[r1].execution_id # resp[r2].execution_id
        /\ \A x \in ledger : x.idempotency_key = Null
        /\ Cardinality(ledger) = 2

====
